---- MODULE Spec2Model ----
(***************************************************************************)
(* TabularData: header indexer, parallel row-offset builder.               *)
(* The source file is a sequence of one-character strings; the byte at     *)
(* absolute offset p is file[p + 1].                                       *)
(***************************************************************************)
EXTENDS Integers, Sequences, FiniteSets, TLC

\* ------------------------------ bounds ---------------------------------
MaxLen == 3
MaxCells == 4
MaxSlab == 2
MaxThreads == 4
MaxChunk == 2
MaxTokens == 2

\* ----------------------------- constants -------------------------------
DEFAULT_NUM_THREADS == 4
DEFAULT_CHUNK_SIZE == 1048576
DEFAULT_COLUMNS_PER_CHUNK == 100000
U16 == 65536

QUOTE == "\""
COMMA == ","
LF == "\n"
CR == "\r"
SPACE == " "
TAB == "\t"
EOF == "EOF"

\* The bytes the exhaustive inputs are built from: one ordinary byte and the
\* four bytes the scanners treat specially.
Bytes == {"a", COMMA, QUOTE, LF, CR}

Min(a, b) == IF a < b THEN a ELSE b

\* All byte sequences of length n over Bytes.
SeqsOfLen(n) == [1..n -> Bytes]

\* ------------------------- documented scenarios ------------------------
\* `a,b,c\n1,2,3\n4,5,6\n`
ScenarioThreeByThree ==
  <<"a", ",", "b", ",", "c", "\n", "1", ",", "2", ",", "3", "\n",
    "4", ",", "5", ",", "6", "\n">>
\* `x,y\r\n10,20\r\n30,40`
ScenarioCRLF ==
  <<"x", ",", "y", "\r", "\n", "1", "0", ",", "2", "0", "\r", "\n",
    "3", "0", ",", "4", "0">>
\* `name,quote\n"Smith, J.","He said ""hi"""`
ScenarioQuoted ==
  <<"n", "a", "m", "e", ",", "q", "u", "o", "t", "e", "\n",
    "\"", "S", "m", "i", "t", "h", ",", " ", "J", ".", "\"", ",",
    "\"", "H", "e", " ", "s", "a", "i", "d", " ", "\"", "\"", "h", "i",
    "\"", "\"", "\"">>
\* `a,b\n1,2\n\n1\n3,4\n`
ScenarioBlankFaulty ==
  <<"a", ",", "b", "\n", "1", ",", "2", "\n", "\n", "1", "\n",
    "3", ",", "4", "\n">>

\* `h\n"a,\nb"\n`: one data row whose quoted field holds a comma and a
\* line break, so that nominal split points land inside the quoted field.
ScenarioResync ==
  <<"h", "\n", "\"", "a", ",", "\n", "b", "\"", "\n">>

\* `"h,\n"\n"a,\nb"\n`: a quoted header field and a quoted data field, each
\* holding a comma and a line break.
ScenarioQuotedBreaks ==
  <<"\"", "h", ",", "\n", "\"", "\n", "\"", "a", ",", "\n", "b", "\"", "\n">>

\* `h\n"aaaa\nb"\nc\nd\ne\n`: a quoted field with a line break followed by
\* three plain rows.
ScenarioRowsAfterQuoted ==
  <<"h", "\n", "\"", "a", "a", "a", "a", "\n", "b", "\"", "\n",
    "c", "\n", "d", "\n", "e", "\n">>

\* `a,b\n \t\n1,2\n`: a data row of white space only.
ScenarioWhitespaceRow ==
  <<"a", ",", "b", "\n", " ", "\t", "\n", "1", ",", "2", "\n">>

\* `h\naaaaaaa\nb\nc\n`: a long first data row followed by two short rows.
ScenarioLongFirstRow ==
  <<"h", "\n", "a", "a", "a", "a", "a", "a", "a", "\n", "b", "\n", "c", "\n">>

\* `h\na"b\nc\n`: a quote in the middle of an unquoted field.
ScenarioQuoteMidField ==
  <<"h", "\n", "a", "\"", "b", "\n", "c", "\n">>

\* `h,h\na,",\nb"\n`: the second field of the data row is quoted and its
\* content starts with a comma and holds a line break.
ScenarioOpeningQuoteAtSplit ==
  <<"h", ",", "h", "\n", "a", ",", "\"", ",", "\n", "b", "\"", "\n">>

Scenarios ==
  {ScenarioThreeByThree, ScenarioCRLF, ScenarioQuoted, ScenarioBlankFaulty,
   ScenarioResync, ScenarioQuotedBreaks, ScenarioRowsAfterQuoted,
   ScenarioWhitespaceRow, ScenarioLongFirstRow, ScenarioQuoteMidField,
   ScenarioOpeningQuoteAtSplit}

Files == (UNION {SeqsOfLen(n) : n \in 0..MaxLen}) \cup Scenarios
ThreadCounts == 1..MaxThreads
ChunkSizes == (1..MaxChunk) \cup {DEFAULT_CHUNK_SIZE}

\* ------------------------------ ifstream -------------------------------
\* A stream is [fp |-> read position, good |-> no eof/fail bit set].
Open(start) == [fp |-> start, good |-> TRUE]

\* in.read(buf, n): gcount and the stream afterwards; a short read sets
\* eofbit|failbit, and a stream that is not good reads nothing.
ReadGot(f, in, n) == IF in.good THEN Min(n, Len(f) - in.fp) ELSE 0
ReadStream(f, in, n) ==
  [fp |-> in.fp + ReadGot(f, in, n), good |-> in.good /\ ReadGot(f, in, n) = n]

\* in.peek(): EOF when the stream is not good or at end of file.
Peek(f, in) == IF in.good /\ in.fp < Len(f) THEN f[in.fp + 1] ELSE EOF
PeekStream(f, in) == [fp |-> in.fp, good |-> in.good /\ in.fp < Len(f)]

\* maybe_consume_LF_after_CR: 1 and the LF consumed when the next byte of
\* the STREAM is LF, else 0.
maybe_consume_LF_after_CR(f, in) == IF Peek(f, in) = LF THEN 1 ELSE 0
StreamAfterMaybeLF(f, in) ==
  IF Peek(f, in) = LF THEN [fp |-> in.fp + 1, good |-> TRUE] ELSE PeekStream(f, in)

\* ------------------------------ feed_csv -------------------------------
\* CsvState is [inQuotes, pendingQuote]; the result adds term = the
\* function's return value (TRUE on an unquoted row terminator).
CsvState == [inQuotes |-> FALSE, pendingQuote |-> FALSE]

\* feed_csv without the quote state: every CR or LF is a terminator.
feed_csv_IgnoringQuotes(c, st) ==
  [inQuotes |-> FALSE, pendingQuote |-> FALSE, term |-> (c = LF \/ c = CR)]

RECURSIVE feed_csv(_, _)
feed_csv(c, st) ==
  IF st.inQuotes
    THEN IF st.pendingQuote
           THEN IF c = QUOTE
                  THEN [inQuotes |-> TRUE, pendingQuote |-> FALSE, term |-> FALSE]
                  ELSE feed_csv(c, [inQuotes |-> FALSE, pendingQuote |-> FALSE])
           ELSE IF c = QUOTE
                  THEN [inQuotes |-> TRUE, pendingQuote |-> TRUE, term |-> FALSE]
                  ELSE [inQuotes |-> TRUE, pendingQuote |-> FALSE, term |-> FALSE]
    ELSE IF c = QUOTE
           THEN [inQuotes |-> TRUE, pendingQuote |-> FALSE, term |-> FALSE]
           ELSE [inQuotes |-> FALSE, pendingQuote |-> st.pendingQuote,
                 term |-> (c = LF \/ c = CR)]

\* ---------------------------- parseHeaderRow ---------------------------
\* close_field: the (u32 fieldStart, u16 length) record appended to the
\* header index file. The u32 value is narrowed to 16 bits; 2^32 is a
\* multiple of 2^16, so fieldStart - 1 wraps to the same 16-bit value.
close_field(fieldStart, lastContent) ==
  [start |-> fieldStart,
   length |-> (IF lastContent >= fieldStart THEN lastContent
               ELSE fieldStart + U16 - 1) % U16]

\* Scan state of parseHeaderRow. bufBase is the file offset of buf[0];
\* closes records the file offset of every byte that closed a field.
HeaderScanInit ==
  [in |-> Open(0), bufBase |-> 0, got |-> 0, i |-> 0, pos |-> 0,
   inQuotes |-> FALSE, atFieldStart |-> TRUE, pendingQuote |-> FALSE,
   headerDone |-> FALSE, fieldStart |-> 0, lastContent |-> 0,
   colCount |-> 0, bin |-> <<>>, closes |-> <<>>]

\* One iteration of the inner for loop on byte c (lines 155-176).
HeaderByte(s, c) ==
  LET adv == [s EXCEPT !.i = s.i + 1, !.pos = s.pos + 1] IN
  IF s.inQuotes
    THEN IF s.pendingQuote
           THEN IF c = QUOTE
                  THEN [adv EXCEPT !.lastContent = s.pos, !.pendingQuote = FALSE]
                  ELSE [s EXCEPT !.inQuotes = FALSE, !.pendingQuote = FALSE]
           ELSE IF c = QUOTE
                  THEN [adv EXCEPT !.pendingQuote = TRUE]
                  ELSE [adv EXCEPT !.lastContent = s.pos]
    ELSE IF s.atFieldStart /\ c = QUOTE
           THEN [adv EXCEPT !.inQuotes = TRUE, !.atFieldStart = FALSE,
                            !.fieldStart = s.pos + 1, !.pendingQuote = FALSE]
           ELSE LET fs == IF s.atFieldStart THEN s.pos ELSE s.fieldStart
                    lc == IF s.atFieldStart /\ c \in {COMMA, CR, LF}
                            THEN s.lastContent ELSE s.pos
                    lcClose == IF s.atFieldStart THEN lc ELSE s.lastContent
                    t == [adv EXCEPT !.atFieldStart = FALSE, !.fieldStart = fs]
                IN IF c = COMMA
                     THEN [t EXCEPT !.bin = Append(s.bin, close_field(fs, lcClose)),
                                    !.lastContent = lcClose,
                                    !.closes = Append(s.closes, s.bufBase + s.i),
                                    !.atFieldStart = TRUE,
                                    !.colCount = s.colCount + 1]
                     ELSE IF c = LF \/ c = CR
                       THEN [t EXCEPT !.bin = Append(s.bin, close_field(fs, lcClose)),
                                      !.lastContent = lcClose,
                                      !.closes = Append(s.closes, s.bufBase + s.i),
                                      !.headerDone = TRUE,
                                      !.colCount = s.colCount + 1]
                       ELSE [t EXCEPT !.lastContent = s.pos]

RECURSIVE HeaderScan(_, _, _)
HeaderScan(f, B, s) ==
  IF s.headerDone THEN s
  ELSE IF s.i >= s.got
    THEN LET got == ReadGot(f, s.in, B) IN
         IF got <= 0
           THEN IF ~s.atFieldStart
                  THEN [s EXCEPT !.bin = Append(s.bin, close_field(s.fieldStart, s.lastContent))]
                  ELSE s
           ELSE HeaderScan(f, B, [s EXCEPT !.in = ReadStream(f, s.in, B),
                                           !.bufBase = s.in.fp, !.got = got, !.i = 0])
    ELSE HeaderScan(f, B, HeaderByte(s, f[s.bufBase + s.i + 1]))

\* TabularData::parseHeaderRow: the final scan state; .bin is the header
\* index file and .colCount the member it leaves.
parseHeaderRow(f, B) == HeaderScan(f, B, HeaderScanInit)

\* --------------------------- header accessors --------------------------
\* std::isspace in the "C" locale on the bytes the model can write.
isspace(c) == c \in {SPACE, TAB, LF, CR, "\f"}

\* trim: the two while loops, start counted from 0 and end exclusive.
RECURSIVE TrimStart(_, _)
TrimStart(s, start) ==
  IF start < Len(s) /\ isspace(s[start + 1]) THEN TrimStart(s, start + 1) ELSE start
RECURSIVE TrimEnd(_, _, _)
TrimEnd(s, start, end) ==
  IF end > start /\ isspace(s[end]) THEN TrimEnd(s, start, end - 1) ELSE end
trim(s) ==
  LET start == TrimStart(s, 0) IN SubSeq(s, start + 1, TrimEnd(s, start, Len(s)))

\* unescapeCsvField: a quote followed by a quote yields one quote.
RECURSIVE UnescapeFrom(_, _, _)
UnescapeFrom(raw, i, out) ==
  IF i >= Len(raw) THEN out
  ELSE IF raw[i + 1] = QUOTE /\ i + 1 < Len(raw) /\ raw[i + 2] = QUOTE
    THEN UnescapeFrom(raw, i + 2, Append(out, QUOTE))
    ELSE UnescapeFrom(raw, i + 1, Append(out, raw[i + 1]))
unescapeCsvField(raw) == UnescapeFrom(raw, 0, <<>>)

\* readPair without the stream check after the two reads: a failed read
\* leaves start = 0 and end = 0.
readPair_Unchecked(bin, colNum) ==
  IF colNum < Len(bin)
    THEN [error |-> "none", start |-> bin[colNum + 1].start, end |-> bin[colNum + 1].length]
    ELSE [error |-> "none", start |-> 0, end |-> 0]

\* readPair: record colNum of the header index file; reading past its last
\* record fails the stream and throws std::out_of_range.
readPair(bin, colNum) ==
  IF colNum < Len(bin)
    THEN [error |-> "none", start |-> bin[colNum + 1].start, end |-> bin[colNum + 1].length]
    ELSE [error |-> "out_of_range", start |-> 0, end |-> 0]

\* The byte range getHeader reads for a record: nothing when end < start,
\* else len = end - start + 1 bytes from start.
HeaderSlice(start, end) ==
  IF end < start THEN [empty |-> TRUE, from |-> start, len |-> 0]
  ELSE [empty |-> FALSE, from |-> start, len |-> end - start + 1]

\* getHeader: the exception thrown ("none" when it returns) and the value.
getHeader(f, bin, colNum) ==
  LET pr == readPair(bin, colNum)
      sl == HeaderSlice(pr.start, pr.end)
  IN IF pr.error # "none" THEN [error |-> pr.error, value |-> <<>>]
     ELSE IF sl.empty THEN [error |-> "none", value |-> <<>>]
     ELSE IF sl.from + sl.len > Len(f) THEN [error |-> "runtime_error", value |-> <<>>]
     ELSE [error |-> "none",
           value |-> trim(unescapeCsvField(SubSeq(f, sl.from + 1, sl.from + sl.len)))]

\* getColumnCount: size of the header index file over the record size.
getColumnCount(bin) == Len(bin)

\* ------------------------- find_first_data_offset ----------------------
\* Scan state shared by the feed_csv based loops: stream, buffer window,
\* for-loop index i, the code's pos counter and the CsvState.
ScanInit(start) ==
  [in |-> Open(start), bufBase |-> start, got |-> 0, i |-> 0, pos |-> start,
   st |-> CsvState]

\* The CR handling after feed_csv returned true (lines 300-304): the offset
\* of the next row start and the scan state after it. The LF is looked for
\* in the buffer first and otherwise in the STREAM, whose position is the
\* end of the buffer.
\* The next row start without the CRLF lookahead.
NextStartAfter_NoLF(f, s, c) == s.pos + 1

NextStartAfter(f, s, c) ==
  IF c = CR
    THEN IF s.i + 1 < s.got /\ f[s.bufBase + s.i + 2] = LF
           THEN s.pos + 2
           ELSE s.pos + 1 + maybe_consume_LF_after_CR(f, s.in)
    ELSE s.pos + 1

\* State after the terminator handling and the loop's ++i, ++pos.
AfterTerminator(f, s, c) ==
  IF c = CR
    THEN IF s.i + 1 < s.got /\ f[s.bufBase + s.i + 2] = LF
           THEN [s EXCEPT !.i = s.i + 2, !.pos = s.pos + 2]
           ELSE [s EXCEPT !.i = s.i + 1,
                          !.pos = s.pos + 1 + maybe_consume_LF_after_CR(f, s.in),
                          !.in = StreamAfterMaybeLF(f, s.in)]
    ELSE [s EXCEPT !.i = s.i + 1, !.pos = s.pos + 1]

\* The buffered loop that feeds bytes to feed_csv until it reports a row
\* terminator: next is the offset returned (the byte after the terminator,
\* or pos at end of file) and term the file offset of the byte reported as
\* terminator (Unset at end of file).
RECURSIVE ScanToRowEnd(_, _, _)
ScanToRowEnd(f, B, s) ==
  IF s.i >= s.got
    THEN LET got == ReadGot(f, s.in, B) IN
         IF got <= 0 THEN [next |-> s.pos, term |-> -1]
         ELSE ScanToRowEnd(f, B, [s EXCEPT !.in = ReadStream(f, s.in, B),
                                           !.bufBase = s.in.fp, !.got = got, !.i = 0])
    ELSE LET c == f[s.bufBase + s.i + 1]
             r == feed_csv(c, s.st)
         IN IF r.term
              THEN [next |-> NextStartAfter(f, s, c), term |-> s.bufBase + s.i]
              ELSE ScanToRowEnd(f, B, [s EXCEPT !.i = s.i + 1, !.pos = s.pos + 1,
                                        !.st = [inQuotes |-> r.inQuotes,
                                                pendingQuote |-> r.pendingQuote]])

find_first_data_offset(f, B) == ScanToRowEnd(f, B, ScanInit(0)).next

\* ------------------------ resync_to_next_row_start ----------------------
\* Scan state positioned at file offset p with the given quote state.
ScanFrom(p, inQ) ==
  [in |-> Open(p), bufBase |-> p, got |-> 0, i |-> 0, pos |-> p,
   st |-> [inQuotes |-> inQ, pendingQuote |-> FALSE]]

\* The byte at offset p as in.peek() sees it on a good stream.
ByteAt(f, p) == IF p < Len(f) THEN f[p + 1] ELSE EOF

\* Lines 334-337 / 342-345: the lookahead byte n at offset p (the quote or
\* quotes before it already consumed) is a delimiter, a terminator or EOF.
ResyncAfterClosingQuote(f, B, p, n) ==
  IF n = COMMA THEN ScanToRowEnd(f, B, ScanFrom(p + 1, FALSE)).next
  ELSE IF n = LF THEN p + 1
  ELSE IF n = CR THEN p + 1 + (IF ByteAt(f, p + 1) = LF THEN 1 ELSE 0)
  ELSE Len(f)

resync_to_next_row_start(f, B, S) ==
  IF S >= Len(f) THEN Len(f)
  ELSE IF f[S + 1] = QUOTE
    THEN LET n1 == ByteAt(f, S + 1) IN
         IF n1 \in {COMMA, LF, CR, EOF}
           THEN ResyncAfterClosingQuote(f, B, S + 1, n1)
         ELSE IF n1 = QUOTE
           THEN LET n2 == ByteAt(f, S + 2) IN
                IF n2 \in {COMMA, LF, CR, EOF}
                  THEN ResyncAfterClosingQuote(f, B, S + 2, n2)
                  ELSE ScanToRowEnd(f, B, ScanFrom(S + 2, TRUE)).next
         ELSE ScanToRowEnd(f, B, ScanFrom(S + 1, TRUE)).next
    ELSE ScanToRowEnd(f, B, ScanFrom(S + 1, FALSE)).next

\* -------------------------- parse_slice_to_file ------------------------
\* Worker state: the scan state plus the row bookkeeping, the part file
\* (out), *rowsOut (rows), and whether std::terminate was called (with the
\* diagnostic's numbers). terms / commas record the file offsets of the
\* bytes reported as row terminators / counted as commas.
NoDiag == [offset |-> -1, expected |-> -1, found |-> -1]

SliceInit(start) ==
  [in |-> Open(start), bufBase |-> start, got |-> 0, i |-> 0, pos |-> start,
   st |-> CsvState, currentRowStart |-> start, commaCount |-> 0,
   rowNotBlank |-> FALSE, out |-> <<>>, rows |-> 0,
   terminated |-> FALSE, diag |-> NoDiag, terms |-> <<>>, commas |-> <<>>]

\* The lambda handle_row_end (lines 403-429).
handle_row_end(p, nextStart, expectedCols, skipFaultyRows) ==
  LET reset == [p EXCEPT !.currentRowStart = nextStart, !.commaCount = 0,
                         !.rowNotBlank = FALSE]
      fields == p.commaCount + 1
  IN IF ~p.rowNotBlank THEN reset
     ELSE IF fields # expectedCols
       THEN IF skipFaultyRows THEN reset
            ELSE [p EXCEPT !.terminated = TRUE,
                           !.diag = [offset |-> p.currentRowStart,
                                     expected |-> expectedCols, found |-> fields]]
       ELSE [reset EXCEPT !.out = Append(p.out, p.currentRowStart),
                          !.rows = p.rows + 1]

\* Lines 439-443: comma counting and blank detection before feed_csv.
CountByte(p, c) ==
  IF p.st.inQuotes THEN p
  ELSE IF c = COMMA
    THEN [p EXCEPT !.commaCount = p.commaCount + 1, !.rowNotBlank = TRUE,
                   !.commas = Append(p.commas, p.bufBase + p.i)]
  ELSE IF c = QUOTE THEN [p EXCEPT !.rowNotBlank = TRUE]
  ELSE IF c \notin {SPACE, TAB, CR, LF} THEN [p EXCEPT !.rowNotBlank = TRUE]
  ELSE p

RECURSIVE SliceScan(_, _, _, _, _, _)
SliceScan(f, B, stop, expectedCols, skipFaultyRows, p) ==
  IF p.i >= p.got
    THEN LET got == ReadGot(f, p.in, B) IN
         IF got <= 0
           THEN IF p.pos > p.currentRowStart
                  THEN handle_row_end(p, p.pos, expectedCols, skipFaultyRows)
                  ELSE p
           ELSE SliceScan(f, B, stop, expectedCols, skipFaultyRows,
                          [p EXCEPT !.in = ReadStream(f, p.in, B),
                                    !.bufBase = p.in.fp, !.got = got, !.i = 0])
    ELSE LET c == f[p.bufBase + p.i + 1]
             q == CountByte(p, c)
             r == feed_csv(c, q.st)
             st2 == [inQuotes |-> r.inQuotes, pendingQuote |-> r.pendingQuote]
         IN IF r.term
              THEN LET nextStart == NextStartAfter(f, q, c)
                       a == AfterTerminator(f, [q EXCEPT !.st = st2,
                                  !.terms = Append(q.terms, q.bufBase + q.i)], c)
                       h == handle_row_end(a, nextStart, expectedCols, skipFaultyRows)
                   IN IF h.terminated \/ nextStart >= stop THEN h
                      ELSE SliceScan(f, B, stop, expectedCols, skipFaultyRows, h)
              ELSE SliceScan(f, B, stop, expectedCols, skipFaultyRows,
                             [q EXCEPT !.i = q.i + 1, !.pos = q.pos + 1, !.st = st2])

parse_slice_to_file(f, B, start, stop, expectedCols, skipFaultyRows) ==
  IF start >= stop THEN SliceInit(start)
  ELSE SliceScan(f, B, stop, expectedCols, skipFaultyRows, SliceInit(start))

\* ========================= column chunk mapping ========================
\* The unsigned char value of a byte, as std::string's comparison sees it,
\* for the bytes that occur in the model's files.
AsciiDigits == <<"0", "1", "2", "3", "4", "5", "6", "7", "8", "9">>
AsciiUpper ==
  <<"A", "B", "C", "D", "E", "F", "G", "H", "I", "J", "K", "L", "M",
    "N", "O", "P", "Q", "R", "S", "T", "U", "V", "W", "X", "Y", "Z">>
AsciiLower ==
  <<"a", "b", "c", "d", "e", "f", "g", "h", "i", "j", "k", "l", "m",
    "n", "o", "p", "q", "r", "s", "t", "u", "v", "w", "x", "y", "z">>
IndexIn(sq, c) == CHOOSE k \in DOMAIN sq : sq[k] = c
ByteCode(c) ==
  IF c = TAB THEN 9
  ELSE IF c = LF THEN 10
  ELSE IF c = "\f" THEN 12
  ELSE IF c = CR THEN 13
  ELSE IF c = SPACE THEN 32
  ELSE IF c = QUOTE THEN 34
  ELSE IF c = COMMA THEN 44
  ELSE IF c = "." THEN 46
  ELSE IF \E k \in DOMAIN AsciiDigits : AsciiDigits[k] = c THEN 47 + IndexIn(AsciiDigits, c)
  ELSE IF \E k \in DOMAIN AsciiUpper : AsciiUpper[k] = c THEN 64 + IndexIn(AsciiUpper, c)
  ELSE 96 + IndexIn(AsciiLower, c)

\* std::string operator<, the key order of std::map<std::string,int>.
RECURSIVE StringLess(_, _)
StringLess(a, b) ==
  IF b = <<>> THEN FALSE
  ELSE IF a = <<>> THEN TRUE
  ELSE IF a[1] = b[1] THEN StringLess(Tail(a), Tail(b))
  ELSE ByteCode(a[1]) < ByteCode(b[1])

\* getTokens: push_token(s, e) appends the trimmed bytes [s, e) of the
\* buffer, which begins at file offset startOff.
push_token(f, startOff, tokens, s, e) ==
  Append(tokens, trim(SubSeq(f, startOff + s + 1, startOff + (IF e < s THEN s ELSE e))))

\* The for loop of getTokens over the buffer; g is [i, inQuotes,
\* pendingQuote, tokenStart, tokens]. The result is the tokens returned and
\* the new value of *currentRowByteOffset.
RECURSIVE GetTokensScan(_, _, _, _, _)
GetTokensScan(f, startOff, bytesRead, maxTokensNeeded, g) ==
  IF g.i >= bytesRead
    THEN [tokens |-> g.tokens,
          cursor |-> IF g.tokens # <<>> THEN startOff + g.tokenStart
                     ELSE startOff + bytesRead]
  ELSE
    LET c == f[startOff + g.i + 1]
        step == [g EXCEPT !.i = g.i + 1]
    IN
    IF g.inQuotes
      THEN IF g.pendingQuote
             THEN IF c # QUOTE
                    THEN GetTokensScan(f, startOff, bytesRead, maxTokensNeeded,
                           [g EXCEPT !.pendingQuote = FALSE, !.inQuotes = FALSE])
                    ELSE GetTokensScan(f, startOff, bytesRead, maxTokensNeeded,
                           [step EXCEPT !.pendingQuote = FALSE])
             ELSE IF c = QUOTE
                    THEN GetTokensScan(f, startOff, bytesRead, maxTokensNeeded,
                           [step EXCEPT !.pendingQuote = TRUE])
                    ELSE GetTokensScan(f, startOff, bytesRead, maxTokensNeeded, step)
    ELSE IF c = QUOTE
      THEN GetTokensScan(f, startOff, bytesRead, maxTokensNeeded,
             [step EXCEPT !.inQuotes = TRUE, !.pendingQuote = FALSE])
    ELSE IF c = COMMA
      THEN LET toks == push_token(f, startOff, g.tokens, g.tokenStart, g.i) IN
           IF Len(toks) = maxTokensNeeded
             THEN [tokens |-> toks, cursor |-> startOff + g.i + 1]
             ELSE GetTokensScan(f, startOff, bytesRead, maxTokensNeeded,
                    [step EXCEPT !.tokens = toks, !.tokenStart = g.i + 1])
    ELSE IF c = LF \/ c = CR
      THEN [tokens |-> push_token(f, startOff, g.tokens, g.tokenStart, g.i),
            cursor |-> startOff + g.i + 1 +
                       (IF c = CR /\ g.i + 1 < bytesRead /\ f[startOff + g.i + 2] = LF
                          THEN 1 ELSE 0)]
    ELSE GetTokensScan(f, startOff, bytesRead, maxTokensNeeded, step)

\* getTokens(&cursor, filePath, maxTokensNeeded) with a buffer of B bytes.
getTokens(f, B, cursor, maxTokensNeeded) ==
  LET bytesRead == Min(B, Len(f) - cursor) IN
    IF maxTokensNeeded <= 0 \/ bytesRead <= 0
      THEN [tokens |-> <<>>, cursor |-> cursor]
      ELSE GetTokensScan(f, cursor, bytesRead, maxTokensNeeded,
             [i |-> 0, inQuotes |-> FALSE, pendingQuote |-> FALSE,
              tokenStart |-> 0, tokens |-> <<>>])

\* The value of a cell of chunk.data that no worker has written yet.
Uninit == "uninit"

\* Row blocks that begin one row early and so overlap their neighbour.
StartingRow_Overlapping(rowCount, n, threadIndex) ==
  IF threadIndex = 0 \/ rowCount \div n = 0 THEN threadIndex * (rowCount \div n)
  ELSE threadIndex * (rowCount \div n) - 1

\* Rows [startingRow, endingRow) of worker threadIndex (lines 646-649).
StartingRow(rowCount, n, threadIndex) == threadIndex * (rowCount \div n)
EndingRow(rowCount, n, threadIndex) ==
  IF threadIndex = n - 1 THEN rowCount ELSE (threadIndex + 1) * (rowCount \div n)

\* The for loop over the tokens of one getTokens call (lines 659-678).
\* m is [currentCol, cursor, maps, cells, hung]: maps[k] is the worker's
\* dictionary of slab column k - 1, cells[k] the row's cell in that column.
RECURSIVE ConsumeTokens(_, _, _, _, _)
ConsumeTokens(tokens, k, startingCol, endingCol, m) ==
  IF k > Len(tokens) THEN m
  ELSE
    LET colIndex == m.currentCol - startingCol
        mp == m.maps[colIndex + 1]
        token == tokens[k]
        localId == IF token \in DOMAIN mp THEN mp[token] ELSE Cardinality(DOMAIN mp)
        mp2 == IF token \in DOMAIN mp THEN mp
               ELSE [x \in DOMAIN mp \cup {token} |-> IF x = token THEN localId ELSE mp[x]]
    IN IF colIndex < 0 \/ colIndex >= endingCol - startingCol THEN m
       ELSE LET m2 == [m EXCEPT !.maps[colIndex + 1] = mp2,
                                !.cells[colIndex + 1] = localId,
                                !.currentCol = m.currentCol + 1]
            IN IF m2.currentCol >= endingCol THEN m2
               ELSE ConsumeTokens(tokens, k + 1, startingCol, endingCol, m2)

\* The while loop of one row (lines 655-679). A getTokens call that returns
\* no token and leaves the cursor where it was repeats for ever.
RECURSIVE MapRow(_, _, _, _, _)
MapRow(f, B, startingCol, endingCol, m) ==
  IF m.currentCol >= endingCol THEN m
  ELSE LET r == getTokens(f, B, m.cursor, endingCol - m.currentCol) IN
       IF r.tokens = <<>>
         THEN IF r.cursor = m.cursor THEN [m EXCEPT !.hung = TRUE]
              ELSE MapRow(f, B, startingCol, endingCol, [m EXCEPT !.cursor = r.cursor])
         ELSE MapRow(f, B, startingCol, endingCol,
                     ConsumeTokens(r.tokens, 1, startingCol, endingCol,
                                   [m EXCEPT !.cursor = r.cursor]))

\* The for loop over the rows of the worker's block (line 652). w is
\* [maps, data, rowCursor, hung]; data[k][row + 1] is chunk.data[k - 1][row].
RECURSIVE MapRows(_, _, _, _, _, _, _)
MapRows(f, B, startingCol, endingCol, row, endingRow, w) ==
  IF row >= endingRow \/ w.hung THEN w
  ELSE
    LET m == MapRow(f, B, startingCol, endingCol,
                    [currentCol |-> startingCol, cursor |-> w.rowCursor[row + 1],
                     maps |-> w.maps,
                     cells |-> [k \in 1..(endingCol - startingCol) |-> w.data[k][row + 1]],
                     hung |-> FALSE])
    IN MapRows(f, B, startingCol, endingCol, row + 1, endingRow,
               [maps |-> m.maps,
                data |-> [k \in DOMAIN w.data |->
                            [w.data[k] EXCEPT ![row + 1] = m.cells[k]]],
                rowCursor |-> [w.rowCursor EXCEPT ![row + 1] = m.cursor],
                hung |-> m.hung])

\* processColumnChunkMap(chunk, threadIndex) with n workers: the worker's
\* dictionaries, chunk.data, chunk.rowCursor and whether it loops for ever.
processColumnChunkMap(f, B, n, startingCol, endingCol, rowCount, data, rowCursor, threadIndex) ==
  MapRows(f, B, startingCol, endingCol,
          StartingRow(rowCount, n, threadIndex), EndingRow(rowCount, n, threadIndex),
          [maps |-> [k \in 1..(endingCol - startingCol) |-> <<>>],
           data |-> data, rowCursor |-> rowCursor, hung |-> FALSE])

\* --------------------------- processColumnChunk ------------------------
\* The keys of a std::map<std::string,int> in iteration order.
RECURSIVE SortedKeys(_)
SortedKeys(keys) ==
  IF keys = {} THEN <<>>
  ELSE LET first == CHOOSE a \in keys : \A b \in keys \ {a} : StringLess(a, b)
       IN <<first>> \o SortedKeys(keys \ {first})

\* Lines 696-699: the entries of one local dictionary, visited in the
\* map's iteration order, emplaced into g when not found.
RECURSIVE EmplaceAll(_, _, _)
EmplaceAll(g, keys, k) ==
  IF k > Len(keys) THEN g
  ELSE IF keys[k] \in DOMAIN g THEN EmplaceAll(g, keys, k + 1)
  ELSE EmplaceAll([x \in DOMAIN g \cup {keys[k]} |->
                     IF x = keys[k] THEN Cardinality(DOMAIN g) ELSE g[x]], keys, k + 1)

\* The thread that returned last is visited first, the others by index.
ThreadVisitOrder_LastFirst(n, finished) ==
  [k \in 1..n |-> IF k = 1 THEN finished.last
                  ELSE IF k - 2 < finished.last THEN k - 2 ELSE k - 1]

\* Line 695: the threads are visited in ascending index, whatever the
\* order in which they finished.
ThreadVisitOrder(n, finished) == [k \in 1..n |-> k - 1]

\* Lines 693-701: the global dictionary of slab column c (0-based).
RECURSIVE GlobalDictFrom(_, _, _, _, _)
GlobalDictFrom(localMaps, c, order, k, g) ==
  IF k > Len(order) THEN g
  ELSE GlobalDictFrom(localMaps, c, order, k + 1,
         EmplaceAll(g, SortedKeys(DOMAIN localMaps[order[k] + 1][c + 1]), 1))
BuildGlobalDict(localMaps, c, order) == GlobalDictFrom(localMaps, c, order, 1, <<>>)

\* A lookup table that keeps the local ids.
RemapLut_Identity(local, g) == [id \in 0..(Cardinality(DOMAIN local) - 1) |-> id]

\* Lines 710-713: lut[localId] = global id of the token with that local
\* id; a slot no entry fills keeps -1.
RemapLut(local, g) ==
  [id \in 0..(Cardinality(DOMAIN local) - 1) |->
     IF \E key \in DOMAIN local : local[key] = id
       THEN g[CHOOSE key \in DOMAIN local : local[key] = id]
       ELSE 0 - 1]

\* The worker that owns a row (lines 720-723).
OwnerOfRow(rowCount, n, row) ==
  CHOOSE t \in 0..(n - 1) :
    StartingRow(rowCount, n, t) <= row /\ row < EndingRow(rowCount, n, t)

\* The relabel with the last slot of the lookup table out of range.
RelabelCell_ShortLut(localId, lut) ==
  IF localId >= 0 /\ localId < Cardinality(DOMAIN lut) - 1 THEN lut[localId] ELSE 0 - 1

\* Lines 727-729: one relabelled cell.
RelabelCell(localId, lut) ==
  IF localId >= 0 /\ localId < Cardinality(DOMAIN lut) THEN lut[localId] ELSE 0 - 1

\* Lines 719-737: chunk.data after the relabel with the dictionaries g[k].
Relabel(data, localMaps, g, rowCount, n) ==
  [k \in DOMAIN data |->
     [r \in DOMAIN data[k] |->
        RelabelCell(data[k][r],
                    RemapLut(localMaps[OwnerOfRow(rowCount, n, r - 1) + 1][k], g[k]))]]

\* colData[r] > maxId with maxId a uint32_t: the int is converted to
\* unsigned, so a negative value compares above every non-negative one.
UnsignedGreater(v, maxId) ==
  IF (v < 0) = (maxId < 0) THEN v > maxId ELSE v < 0

\* The running maximum over the cells of the first column only.
MaxGlobalId_FirstColumn(data) ==
  LET vals == {0} \cup {data[k][r] : k \in DOMAIN data \cap {1}, r \in 1..Len(data[1])}
  IN CHOOSE m \in vals : \A v \in vals : ~UnsignedGreater(v, m)

\* Lines 718-733: maxId starts at 0 and follows every relabelled cell.
MaxGlobalId(data) ==
  LET vals == {0} \cup UNION {{data[k][r] : r \in DOMAIN data[k]} : k \in DOMAIN data}
  IN CHOOSE m \in vals : \A v \in vals : ~UnsignedGreater(v, m)

\* -------------------------- findNewLineOffsets -------------------------
\* The UTF-8 byte order mark (lines 60-67); its bytes stand outside the
\* alphabet of the files.
BOM == <<"EF", "BB", "BF">>
file_start(f) == IF Len(f) >= 3 /\ SubSeq(f, 1, 3) = BOM THEN 3 ELSE 0

\* The scan state of findNewLineOffsets (lines 70-86) with the file
\* written (out), total_lines_ and whether a `return false` was taken.
SequentialInit(f) ==
  [abs_pos |-> file_start(f), in_quotes |-> FALSE, pending_quote |-> FALSE,
   pending_cr |-> FALSE, header_done |-> FALSE, cur_row_start |-> file_start(f),
   delim_count |-> 0, any_byte_in_row |-> FALSE, have_pending_start |-> FALSE,
   pending_start |-> 0, out |-> <<>>, total_lines_ |-> 0, failed |-> FALSE]

\* reset_row (lines 88-94) after cur_row_start and pending_start are set.
reset_row(g, next_row_start) ==
  [g EXCEPT !.have_pending_start = TRUE, !.pending_start = next_row_start,
            !.cur_row_start = next_row_start, !.pending_cr = FALSE,
            !.pending_quote = FALSE, !.in_quotes = FALSE, !.delim_count = 0,
            !.any_byte_in_row = FALSE]

\* finalize_current_row (lines 96-130); failed stands for `return false`.
finalize_current_row(g, next_row_start, num_columns) ==
  LET row_has_cols == g.any_byte_in_row \/ g.delim_count > 0
      cols == IF row_has_cols THEN g.delim_count + 1 ELSE 0
  IN
  IF ~g.header_done
    THEN reset_row([g EXCEPT !.header_done = TRUE], next_row_start)
  ELSE IF row_has_cols
    THEN IF cols # num_columns
           THEN [g EXCEPT !.failed = TRUE]
           ELSE IF g.have_pending_start
             THEN reset_row([g EXCEPT !.out = Append(g.out, g.pending_start),
                                      !.total_lines_ = g.total_lines_ + 1],
                            next_row_start)
             ELSE reset_row(g, next_row_start)
    ELSE reset_row(g, next_row_start)

\* ++abs_pos unless the function has returned.
Consume(g) == IF g.failed THEN g ELSE [g EXCEPT !.abs_pos = g.abs_pos + 1]

\* One pass of the for loop (lines 137-183) on byte c. Every branch ends
\* with `continue`, so the loop's ++i moves to the next byte also where
\* the comment says the byte is reprocessed.
SequentialByte(g, c, num_columns) ==
  IF g.pending_quote
    THEN IF c = QUOTE
           THEN Consume([g EXCEPT !.pending_quote = FALSE, !.any_byte_in_row = TRUE])
           ELSE [g EXCEPT !.pending_quote = FALSE, !.in_quotes = FALSE]
  ELSE IF ~g.in_quotes
    THEN IF g.pending_cr
           THEN IF c = LF
                  THEN Consume(finalize_current_row([g EXCEPT !.pending_cr = FALSE],
                                                    g.abs_pos + 1, num_columns))
                  ELSE finalize_current_row([g EXCEPT !.pending_cr = FALSE],
                                            g.abs_pos, num_columns)
         ELSE IF c = CR THEN Consume([g EXCEPT !.pending_cr = TRUE])
         ELSE IF c = LF
           THEN Consume(finalize_current_row(g, g.abs_pos + 1, num_columns))
         ELSE IF c = COMMA
           THEN Consume([g EXCEPT !.delim_count = g.delim_count + 1,
                                  !.any_byte_in_row = TRUE])
         ELSE IF c = QUOTE
           THEN Consume([g EXCEPT !.in_quotes = TRUE, !.any_byte_in_row = TRUE])
         ELSE Consume([g EXCEPT !.any_byte_in_row = TRUE])
    ELSE IF c = QUOTE THEN Consume([g EXCEPT !.pending_quote = TRUE])
         ELSE Consume([g EXCEPT !.any_byte_in_row = TRUE])

\* The read loop (lines 132-184) from file offset i on. The scan state is
\* kept across buffers and no byte is looked at ahead of the loop index,
\* so the result does not depend on the buffer size.
RECURSIVE SequentialScan(_, _, _, _)
SequentialScan(f, i, g, num_columns) ==
  IF g.failed \/ i >= Len(f) THEN g
  ELSE SequentialScan(f, i + 1, SequentialByte(g, f[i + 1], num_columns), num_columns)

\* The finalization at EOF (lines 186-200).
SequentialEOF(g, num_columns) ==
  LET e == IF g.pending_quote THEN [g EXCEPT !.in_quotes = FALSE] ELSE g IN
  IF e.failed THEN e
  ELSE IF e.pending_cr /\ ~e.in_quotes
    THEN finalize_current_row(e, e.abs_pos, num_columns)
  ELSE IF e.any_byte_in_row \/ e.delim_count > 0
    THEN finalize_current_row(e, e.abs_pos, num_columns)
    ELSE e

\* findNewLineOffsets() on file f with num_columns_ = num_columns and
\* total_lines_ = before: the return value, row_byte_offsets.bin and
\* total_lines_ afterwards. Without a parsed header the function returns
\* before it opens the output file and before it resets total_lines_.
findNewLineOffsets(f, num_columns, before, outBefore) ==
  IF num_columns = 0
    THEN [ok |-> FALSE, out |-> outBefore, total_lines_ |-> before]
    ELSE LET g == SequentialEOF(SequentialScan(f, file_start(f), SequentialInit(f),
                                               num_columns), num_columns)
         IN [ok |-> ~g.failed, out |-> g.out, total_lines_ |-> g.total_lines_]

\* ============================ state machine ============================
VARIABLES
  file,             \* the CSV source file (read-only)
  NUM_THREADS,      \* build-time worker count
  CHUNK_SIZE,       \* build-time read-buffer size
  skipRows,         \* TabularData::skipRows
  pc,               \* position of the main thread
  colCount,         \* TabularData::colCount
  headerBin,        \* header_string_lookup_offsets.bin
  headerCloses,     \* offsets of the bytes that closed a header field
  firstData,        \* findRowOffsets: firstData
  S,                \* findRowOffsets: nominal split offsets S[0..N)
  handoff,          \* findRowOffsets: handoff[0..N]
  resynced,         \* resync workers that have finished
  parsed,           \* parse workers that have finished
  parts,            \* row_offsets.part-t.bin, t in 0..N-1
  threadRowCounts,  \* findRowOffsets: threadRowCounts[t]
  workerLog,        \* per worker: terminators reported and commas counted
  rowCount,         \* TabularData::rowCount
  rowOffsetsBin,    \* row_offsets.bin
  diag,             \* the diagnostic printed before std::terminate
  lastCall,         \* the last accessor call and what it returned or threw
  wide,             \* one header field followed from close_field to getHeader
  tokenCall,        \* one getTokens call: its arguments and what it returned
  sequential,       \* one findNewLineOffsets call: num_columns_, file written, result
  COLUMNS_PER_CHUNK, \* build-time slab width
  fpc,              \* mapIntTranspose: position, loop variable col, hung workers
  chunk,            \* mapIntTranspose: the ColumnChunk
  finished,         \* workers of the slab that have returned, and the last of them
  globalDict,       \* processColumnChunk: globalDict of the last merged slab
  meta              \* column_chunk_meta.bin

vars == <<file, NUM_THREADS, CHUNK_SIZE, skipRows, pc, colCount, headerBin,
          headerCloses, firstData, S, handoff, resynced, parsed, parts,
          threadRowCounts, workerLog, rowCount, rowOffsetsBin, diag, lastCall,
          wide, tokenCall, sequential, COLUMNS_PER_CHUNK, fpc, chunk, finished, globalDict,
          meta>>

factorVars == <<COLUMNS_PER_CHUNK, fpc, chunk, finished, globalDict, meta>>

\* The variables the row-offset build leaves alone.
others == <<lastCall, wide, tokenCall, sequential, factorVars>>

config == <<file, NUM_THREADS, CHUNK_SIZE, skipRows>>

Threads == 0..(NUM_THREADS - 1)
Unset == 0 - 1
NoLog == [terms |-> <<>>, commas |-> <<>>, start |-> Unset]
NoChunk ==
  [rowOffsets |-> <<>>, rowCursor |-> <<>>, rowCount |-> 0, start |-> 0,
   end |-> 0, data |-> <<>>, localMaps |-> <<>>]
NoneFinished == [done |-> {}, last |-> Unset]
FactorIdle == [at |-> "idle", col |-> 0, hung |-> {}]
NoWide == [pc |-> "none", fieldStart |-> 0, n |-> 0, rec |-> <<>>, slice |-> <<>>]
NoSequential ==
  [pc |-> "none", num_columns_ |-> 0, ok |-> FALSE, out |-> <<>>, total_lines_ |-> 0]
NoTokenCall == [pc |-> "none", cursor |-> 0, max |-> 0, tokens |-> <<>>, after |-> 0]
NoCall == [op |-> "none", col |-> Unset, error |-> "none", value |-> <<>>, count |-> Unset]

\* The object after construction, before any call; the output directory
\* is the one the constructor found or created.
InitObject(fileSet, threadSet, chunkSet) ==
  /\ file \in fileSet
  /\ NUM_THREADS \in threadSet
  /\ CHUNK_SIZE \in chunkSet
  /\ skipRows \in BOOLEAN
  /\ pc = "start"
  /\ colCount = -1
  /\ headerBin = <<>>
  /\ headerCloses = <<>>
  /\ firstData = Unset
  /\ S = <<>>
  /\ handoff = <<>>
  /\ resynced = {}
  /\ parsed = {}
  /\ parts = <<>>
  /\ threadRowCounts = <<>>
  /\ workerLog = <<>>
  /\ rowCount = 0
  /\ diag = NoDiag
  /\ lastCall = NoCall
  /\ tokenCall = NoTokenCall
  /\ sequential = NoSequential

\* The object after construction in an output directory without
\* row_offsets.bin.
InitBuild(fileSet, threadSet, chunkSet) ==
  /\ InitObject(fileSet, threadSet, chunkSet)
  /\ rowOffsetsBin = <<>>

\* mapIntTranspose not yet called, with the slab width of the build and
\* the column_chunk_meta.bin found in the output directory.
InitFactorIn(slabSet, metaSet) ==
  /\ COLUMNS_PER_CHUNK \in slabSet
  /\ fpc = FactorIdle
  /\ chunk = NoChunk
  /\ finished = NoneFinished
  /\ globalDict = <<>>
  /\ meta \in metaSet

\* The same in an output directory without column_chunk_meta.bin.
InitFactorIdle(slabSet) == InitFactorIn(slabSet, {<<>>})

InitWith(fileSet, threadSet, chunkSet) ==
  /\ InitBuild(fileSet, threadSet, chunkSet)
  /\ wide = NoWide
  /\ InitFactorIdle({DEFAULT_COLUMNS_PER_CHUNK})

Init == InitWith(Files, ThreadCounts, ChunkSizes)

\* TabularData::parseHeaderRow()
ParseHeaderRow ==
  /\ pc = "start"
  /\ LET h == parseHeaderRow(file, CHUNK_SIZE) IN
       /\ colCount' = h.colCount
       /\ headerBin' = h.bin
       /\ headerCloses' = h.closes
  /\ pc' = "header"
  /\ UNCHANGED <<config, others, firstData, S, handoff, resynced, parsed, parts,
                 threadRowCounts, workerLog, rowCount, rowOffsetsBin, diag>>

\* The split without the remainder bytes handed to the first workers.
NominalSplit_NoRemainder(first, fsize, n) ==
  [t \in 0..(n - 1) |-> first + t * ((fsize - first) \div n)]

\* The nominal split (lines 486-497): S[t] for t in 0..N-1.
NominalSplit(first, fsize, n) ==
  LET dataBytes == fsize - first
      base == dataBytes \div n
      rem == dataBytes % n
  IN [t \in 0..(n - 1) |-> first + t * base + Min(t, rem)]

\* findRowOffsets up to the spawn of the resync workers (lines 465-509).
\* An empty file or a file without data bytes only truncates the part files
\* and returns.
FindRowOffsetsBegin ==
  /\ pc = "header"
  /\ LET fsize == Len(file)
         first == IF fsize = 0 THEN Unset ELSE find_first_data_offset(file, CHUNK_SIZE)
     IN IF fsize = 0 \/ first >= fsize
          THEN /\ pc' = "returned_early"
               /\ firstData' = first
               /\ parts' = [t \in Threads |-> <<>>]
               /\ UNCHANGED <<S, handoff>>
          ELSE /\ pc' = "resync"
               /\ firstData' = first
               /\ S' = NominalSplit(first, fsize, NUM_THREADS)
               /\ handoff' = [t \in 0..NUM_THREADS |->
                                IF t = 0 THEN first
                                ELSE IF t = NUM_THREADS THEN fsize ELSE Unset]
               /\ UNCHANGED parts
  /\ UNCHANGED <<config, others, colCount, headerBin, headerCloses, resynced, parsed,
                 threadRowCounts, workerLog, rowCount, rowOffsetsBin, diag>>

\* Resync worker t (lines 505-509).
Resync(t) ==
  /\ pc = "resync"
  /\ t \in 1..(NUM_THREADS - 1)
  /\ t \notin resynced
  /\ handoff' = [handoff EXCEPT ![t] = resync_to_next_row_start(file, CHUNK_SIZE, S[t])]
  /\ resynced' = resynced \cup {t}
  /\ UNCHANGED <<config, others, pc, colCount, headerBin, headerCloses, firstData, S,
                 parsed, parts, threadRowCounts, workerLog, rowCount,
                 rowOffsetsBin, diag>>

\* The parse workers spawned without the join of the resync workers.
SpawnParse_NoJoin ==
  /\ pc = "resync"
  /\ pc' = "parse"
  /\ threadRowCounts' = [t \in Threads |-> 0]
  /\ workerLog' = [t \in Threads |-> NoLog]
  /\ UNCHANGED <<config, others, colCount, headerBin, headerCloses, firstData, S,
                 handoff, resynced, parsed, parts, rowCount, rowOffsetsBin, diag>>

\* Join of the resync workers and spawn of the parse workers (lines 510-523).
SpawnParse ==
  /\ pc = "resync"
  /\ resynced = 1..(NUM_THREADS - 1)
  /\ pc' = "parse"
  /\ threadRowCounts' = [t \in Threads |-> 0]
  /\ workerLog' = [t \in Threads |-> NoLog]
  /\ UNCHANGED <<config, others, colCount, headerBin, headerCloses, firstData, S,
                 handoff, resynced, parsed, parts, rowCount, rowOffsetsBin, diag>>

\* Parse worker t (lines 518-522): parse_slice_to_file on its range; a width
\* mismatch with skipping disabled ends the process.
ParseSlice(t) ==
  /\ pc = "parse"
  /\ t \in Threads
  /\ t \notin parsed
  /\ LET r == parse_slice_to_file(file, CHUNK_SIZE, handoff[t], handoff[t + 1],
                                  colCount, skipRows)
     IN /\ parts' = [u \in Threads |-> IF u = t THEN r.out
                                        ELSE IF u \in DOMAIN parts THEN parts[u] ELSE <<>>]
        /\ threadRowCounts' = [threadRowCounts EXCEPT ![t] = r.rows]
        /\ workerLog' = [workerLog EXCEPT ![t] =
                           [terms |-> r.terms, commas |-> r.commas, start |-> handoff[t]]]
        /\ pc' = IF r.terminated THEN "terminated" ELSE pc
        /\ diag' = IF r.terminated THEN r.diag ELSE diag
  /\ parsed' = parsed \cup {t}
  /\ UNCHANGED <<config, others, colCount, headerBin, headerCloses, firstData, S,
                 handoff, resynced, rowCount, rowOffsetsBin>>

RECURSIVE Concat(_, _)
\* Reference: the part files 0..n one after the other in thread-index order.
Concat(ps, n) == IF n < 0 THEN <<>> ELSE Concat(ps, n - 1) \o ps[n]

RECURSIVE Sum(_, _)
Sum(fn, n) == IF n < 0 THEN 0 ELSE Sum(fn, n - 1) + fn[n]

\* The merge loop (lines 535-540): out << in.rdbuf() for the part files 0..n
\* in thread-index order. An insertion that copies no byte sets failbit on
\* out, and a stream that is not good inserts nothing afterwards. m is
\* [out |-> bytes written, good |-> out.good()].
RECURSIVE MergeFrom(_, _, _, _)
MergeFrom(ps, t, n, m) ==
  IF t > n THEN m.out
  ELSE IF m.good /\ ps[t] # <<>>
    THEN MergeFrom(ps, t + 1, n, [out |-> m.out \o ps[t], good |-> TRUE])
    ELSE MergeFrom(ps, t + 1, n, [out |-> m.out, good |-> FALSE])
MergeParts(ps, n) == MergeFrom(ps, 0, n, [out |-> <<>>, good |-> TRUE])

\* Join of the parse workers, row count, merge and removal of the part
\* files (lines 524-551).
Merge ==
  /\ pc = "parse"
  /\ parsed = Threads
  /\ rowCount' = Sum(threadRowCounts, NUM_THREADS - 1)
  /\ rowOffsetsBin' = MergeParts(parts, NUM_THREADS - 1)
  /\ parts' = <<>>
  /\ pc' = "done"
  /\ UNCHANGED <<config, others, colCount, headerBin, headerCloses, firstData, S,
                 handoff, resynced, parsed, threadRowCounts, workerLog, diag>>

Next ==
  \/ ParseHeaderRow
  \/ FindRowOffsetsBegin
  \/ \E t \in 1..MaxThreads : Resync(t)
  \/ SpawnParse
  \/ \E t \in 0..MaxThreads : ParseSlice(t)
  \/ Merge

Spec == Init /\ [][Next]_vars

\* ========================= header accessor calls =======================
\* Header rows for the accessor calls: the scanner's bytes and a blank.
HeaderBytes == Bytes \cup {SPACE}
HeaderFiles == (UNION {[1..n -> HeaderBytes] : n \in 0..MaxLen}) \cup Scenarios

\* One worker and skipping enabled, as the object is constructed.
InitHeaders ==
  /\ InitWith(HeaderFiles, {1}, ChunkSizes)
  /\ skipRows = TRUE

\* The accessors are called after parseHeaderRow, before or after
\* findRowOffsets has run.
AccessorsCallable == pc \in {"header", "done", "returned_early"}

\* The state every accessor call leaves alone: the accessors are const
\* members that open the files for reading only.
buildState ==
  <<config, pc, colCount, headerBin, headerCloses, firstData, S, handoff,
    resynced, parsed, parts, threadRowCounts, workerLog, rowCount,
    rowOffsetsBin, diag>>

\* getHeader(i) called once the header index file exists.
GetHeader(i) ==
  /\ AccessorsCallable
  /\ LET r == getHeader(file, headerBin, i) IN
       lastCall' = [op |-> "getHeader", col |-> i, error |-> r.error,
                    value |-> r.value, count |-> Unset]
  /\ UNCHANGED <<buildState, wide, tokenCall, sequential, factorVars>>

\* getColumnCount() called once the header index file exists.
GetColumnCount ==
  /\ AccessorsCallable
  /\ lastCall' = [op |-> "getColumnCount", col |-> Unset, error |-> "none",
                  value |-> <<>>, count |-> getColumnCount(headerBin)]
  /\ UNCHANGED <<buildState, wide, tokenCall, sequential, factorVars>>

NextHeaders ==
  \/ ParseHeaderRow
  \/ \E i \in 0..(Len(file) + 1) : GetHeader(i)
  \/ GetColumnCount
  \/ FindRowOffsetsBegin
  \/ SpawnParse
  \/ ParseSlice(0)
  \/ Merge

SpecHeaders == InitHeaders /\ [][NextHeaders]_vars

\* ============== a build in a directory that was used before ============
\* row_offsets.bin as an earlier build of another source file left it in
\* the output directory: the constructor creates the directory when it is
\* missing and removes nothing from it.
StaleIndexes == {<<>>, <<2, 4>>}

InitRebuild ==
  /\ InitObject(Files, ThreadCounts, {DEFAULT_CHUNK_SIZE})
  /\ rowOffsetsBin \in StaleIndexes
  /\ wide = NoWide
  /\ InitFactorIdle({DEFAULT_COLUMNS_PER_CHUNK})

SpecRebuild == InitRebuild /\ [][Next]_vars

\* ================= one header field at any offset of the row ===========
\* A header field of n content bytes whose first content byte lies at
\* fieldStart, near offset 0 and on both sides of 2^16. The row before it
\* is not enumerated: close_field and getHeader use only the two offsets.
WideStarts == (0..MaxLen) \cup ((U16 - MaxLen)..(U16 + MaxLen))

\* lastContent when the field closes: the offset of its last content byte,
\* or for an empty field a stale value below fieldStart (0 at offset 0).
WideLastContent(w) ==
  IF w.n > 0 THEN w.fieldStart + w.n - 1
  ELSE IF w.fieldStart > 0 THEN w.fieldStart - 1 ELSE 0

InitWide ==
  /\ InitBuild({<<>>}, {DEFAULT_NUM_THREADS}, {DEFAULT_CHUNK_SIZE})
  /\ InitFactorIdle({DEFAULT_COLUMNS_PER_CHUNK})
  /\ skipRows = TRUE
  /\ \E fs \in WideStarts, n \in 0..MaxLen :
        wide = [pc |-> "open", fieldStart |-> fs, n |-> n, rec |-> <<>>, slice |-> <<>>]

\* parseHeaderRow closes the field: the record written by close_field.
WideClose ==
  /\ wide.pc = "open"
  /\ wide' = [wide EXCEPT !.pc = "closed",
                          !.rec = close_field(wide.fieldStart, WideLastContent(wide))]
  /\ UNCHANGED <<buildState, lastCall, tokenCall, sequential, factorVars>>

\* getHeader reads the record back and computes the byte range to read.
WideGet ==
  /\ wide.pc = "closed"
  /\ wide' = [wide EXCEPT !.pc = "read",
                          !.slice = HeaderSlice(wide.rec.start, wide.rec.length)]
  /\ UNCHANGED <<buildState, lastCall, tokenCall, sequential, factorVars>>

NextWide == WideClose \/ WideGet

SpecWide == InitWide /\ [][NextWide]_vars

\* ============================ one getTokens call =======================
\* getTokens called with a cursor anywhere in the file or at its end and
\* with 1..MaxTokens tokens asked for, with every buffer size.
TokenFiles == HeaderFiles

InitTokens ==
  /\ InitBuild(TokenFiles, {DEFAULT_NUM_THREADS}, ChunkSizes)
  /\ skipRows = TRUE
  /\ wide = NoWide
  /\ InitFactorIdle({DEFAULT_COLUMNS_PER_CHUNK})

GetTokens(cursor, maxTokensNeeded) ==
  /\ LET r == getTokens(file, CHUNK_SIZE, cursor, maxTokensNeeded) IN
       tokenCall' = [pc |-> "returned", cursor |-> cursor, max |-> maxTokensNeeded,
                     tokens |-> r.tokens, after |-> r.cursor]
  /\ UNCHANGED <<buildState, lastCall, wide, sequential, factorVars>>

NextTokens == \E cursor \in 0..Len(file), m \in 1..MaxTokens : GetTokens(cursor, m)

SpecTokens == InitTokens /\ [][NextTokens]_vars

\* ====================== one findNewLineOffsets call ====================
\* The sequential builder called on an object whose header parse left
\* num_columns_ columns (0: not parsed).
MaxColumns == 2

\* `h\ra\rb\r`: rows ended by lone CR.
ScenarioLoneCR ==
  <<"h", "\r", "a", "\r", "b", "\r">>

\* `h\n"a"\nb\n`: a quoted field closed right before the row terminator.
ScenarioQuotedRow ==
  <<"h", "\n", "\"", "a", "\"", "\n", "b", "\n">>

SequentialFiles == HeaderFiles \cup {ScenarioLoneCR, ScenarioQuotedRow}

InitSequential ==
  /\ InitBuild(SequentialFiles, {DEFAULT_NUM_THREADS}, {DEFAULT_CHUNK_SIZE})
  /\ skipRows = TRUE
  /\ wide = NoWide
  /\ InitFactorIdle({DEFAULT_COLUMNS_PER_CHUNK})

FindNewLineOffsets(num_columns) ==
  /\ LET r == findNewLineOffsets(file, num_columns, sequential.total_lines_,
                                 sequential.out) IN
       sequential' = [pc |-> "returned", num_columns_ |-> num_columns, ok |-> r.ok,
                      out |-> r.out, total_lines_ |-> r.total_lines_]
  /\ UNCHANGED <<buildState, lastCall, wide, tokenCall, factorVars>>

NextSequential == \E num_columns \in 0..MaxColumns : FindNewLineOffsets(num_columns)

SpecSequential == InitSequential /\ [][NextSequential]_vars

\* ============================ mapIntTranspose ==========================
\* Tables for the factorizer: a header row of ncols names and nrows data
\* rows whose cells are drawn from Tokens, every row ended by LF.
Tokens == {<<"a">>, <<"b">>}

RECURSIVE JoinCells(_, _)
JoinCells(cells, k) ==
  IF k > Len(cells) THEN <<LF>>
  ELSE (IF k > 1 THEN <<COMMA>> ELSE <<>>) \o cells[k] \o JoinCells(cells, k + 1)

RECURSIVE JoinRows(_, _)
JoinRows(rows, k) ==
  IF k > Len(rows) THEN <<>> ELSE JoinCells(rows[k], 1) \o JoinRows(rows, k + 1)

TableFile(ncols, rows) == JoinCells([k \in 1..ncols |-> <<"h">>], 1) \o JoinRows(rows, 1)

TablesOf(ncols, nrows) ==
  {TableFile(ncols, rows) : rows \in [1..nrows -> [1..ncols -> Tokens]]}
TableFiles ==
  UNION {UNION {TablesOf(ncols, nrows) : nrows \in 1..(MaxCells \div ncols)} :
           ncols \in 1..MaxCells}

\* `h\nc\na\nb\nc\n`: one column of three distinct strings, first seen in
\* an order that is not their sorted order.
ScenarioThreeStrings ==
  <<"h", "\n", "c", "\n", "a", "\n", "b", "\n", "c", "\n">>

\* `h\n"a"\na\n`: the same value once quoted and once plain.
ScenarioQuotedAndPlain ==
  <<"h", "\n", "\"", "a", "\"", "\n", "a", "\n">>

\* `h,h\n"a",b,c\n`: a two-column header and a data row of three fields,
\* the first of them quoted.
ScenarioQuotedThenComma ==
  <<"h", ",", "h", "\n", "\"", "a", "\"", ",", "b", ",", "c", "\n">>

FactorFiles ==
  TableFiles \cup Scenarios
    \cup {ScenarioThreeStrings, ScenarioQuotedAndPlain, ScenarioQuotedThenComma}
SlabSizes == (1..MaxSlab) \cup {DEFAULT_COLUMNS_PER_CHUNK}

\* column_chunk_meta.bin as an earlier run left it in the output directory.
StaleMetas == {<<>>, <<[ncols |-> 7, maxGlobalId |-> 7]>>}

InitFactor ==
  /\ InitBuild(FactorFiles, ThreadCounts, {DEFAULT_CHUNK_SIZE})
  /\ wide = NoWide
  /\ InitFactorIn(SlabSizes, StaleMetas)

InitPipeline ==
  /\ InitBuild(FactorFiles, ThreadCounts, {DEFAULT_CHUNK_SIZE})
  /\ wide = NoWide
  /\ InitFactorIdle(SlabSizes)

\* findRowOffsets as one call: the resync workers, the parse workers and
\* the merge, whose results do not depend on the workers' interleaving.
findRowOffsets(f, B, n, expectedCols, skipFaultyRows) ==
  LET fsize == Len(f)
      first == IF fsize = 0 THEN Unset ELSE find_first_data_offset(f, B)
      split == NominalSplit(first, fsize, n)
      hand == [t \in 0..n |->
                 IF t = 0 THEN first
                 ELSE IF t = n THEN fsize
                 ELSE resync_to_next_row_start(f, B, split[t])]
      part == [t \in 0..(n - 1) |->
                 parse_slice_to_file(f, B, hand[t], hand[t + 1], expectedCols,
                                     skipFaultyRows)]
  IN IF fsize = 0 \/ first >= fsize
       THEN [pc |-> "returned_early", firstData |-> first, rowCount |-> 0, out |-> <<>>]
     ELSE IF \E t \in 0..(n - 1) : part[t].terminated
       THEN [pc |-> "terminated", firstData |-> first, rowCount |-> 0, out |-> <<>>]
     ELSE [pc |-> "done", firstData |-> first,
           rowCount |-> Sum([t \in 0..(n - 1) |-> part[t].rows], n - 1),
           out |-> MergeParts([t \in 0..(n - 1) |-> part[t].out], n - 1)]

\* parseHeaderRow() and findRowOffsets(), the calls before mapIntTranspose.
BuildIndex ==
  /\ pc = "start"
  /\ LET h == parseHeaderRow(file, CHUNK_SIZE)
         r == findRowOffsets(file, CHUNK_SIZE, NUM_THREADS, h.colCount, skipRows)
     IN /\ colCount' = h.colCount
        /\ headerBin' = h.bin
        /\ headerCloses' = h.closes
        /\ firstData' = r.firstData
        /\ rowCount' = r.rowCount
        /\ rowOffsetsBin' = r.out
        /\ pc' = r.pc
  /\ UNCHANGED <<config, S, handoff, resynced, parsed, parts, threadRowCounts,
                 workerLog, diag, others>>

\* Values an element of new uint64_t[rowCount] can hold that offs.read did
\* not fill: the array is not initialised, so any value; an offset inside
\* the file and one at its end stand for them.
Indeterminate(f) == {0, Len(f)}

\* offs.read of rowCount entries from row_offsets.bin (lines 770-775): a
\* file with fewer entries fills only the front of the array.
ReadRowOffsets(bin, n, tail) ==
  [k \in 1..n |-> IF k <= Len(bin) THEN bin[k] ELSE tail[k - Len(bin)]]

\* mapIntTranspose up to its column loop without the truncation of the
\* metadata file.
MapIntTransposeBegin_NoTruncate ==
  /\ pc = "done"
  /\ fpc.at = "idle"
  /\ \E tail \in [1..(rowCount - Min(rowCount, Len(rowOffsetsBin))) -> Indeterminate(file)] :
        chunk' = [NoChunk EXCEPT !.rowCount = rowCount,
                                 !.rowOffsets = ReadRowOffsets(rowOffsetsBin, rowCount, tail),
                                 !.rowCursor = ReadRowOffsets(rowOffsetsBin, rowCount, tail)]
  /\ fpc' = [fpc EXCEPT !.at = "loop", !.col = 0]
  /\ UNCHANGED <<buildState, lastCall, wide, tokenCall, sequential, COLUMNS_PER_CHUNK, finished,
                 globalDict, meta>>

\* mapIntTranspose up to its column loop (lines 763-782): the row offsets
\* are read into rowOffsets and copied to rowCursor, the metadata file is
\* truncated.
MapIntTransposeBegin ==
  /\ pc = "done"
  /\ fpc.at = "idle"
  /\ \E tail \in [1..(rowCount - Min(rowCount, Len(rowOffsetsBin))) -> Indeterminate(file)] :
        chunk' = [NoChunk EXCEPT !.rowCount = rowCount,
                                 !.rowOffsets = ReadRowOffsets(rowOffsetsBin, rowCount, tail),
                                 !.rowCursor = ReadRowOffsets(rowOffsetsBin, rowCount, tail)]
  /\ meta' = <<>>
  /\ fpc' = [fpc EXCEPT !.at = "loop", !.col = 0]
  /\ UNCHANGED <<buildState, lastCall, wide, tokenCall, sequential, COLUMNS_PER_CHUNK, finished, globalDict>>

\* One pass of the column loop up to the spawn of the workers (lines
\* 784-804 and 684-686).
SlabBegin ==
  /\ fpc.at = "loop"
  /\ fpc.col < colCount
  /\ LET end == Min(fpc.col + COLUMNS_PER_CHUNK, colCount)
         ncols == end - fpc.col
     IN chunk' = [chunk EXCEPT
                    !.start = fpc.col,
                    !.end = end,
                    !.data = [k \in 1..ncols |-> [r \in 1..chunk.rowCount |-> Uninit]],
                    !.localMaps = [t \in 1..NUM_THREADS |-> [k \in 1..ncols |-> <<>>]]]
  /\ finished' = NoneFinished
  /\ fpc' = [fpc EXCEPT !.at = "map"]
  /\ UNCHANGED <<buildState, lastCall, wide, tokenCall, sequential, COLUMNS_PER_CHUNK, globalDict, meta>>

\* A worker that advances the row's entry of rowOffsets with its cursor.
MapWorker_AdvancesOffsets(t) ==
  /\ fpc.at = "map"
  /\ t \in Threads
  /\ t \notin finished.done \cup fpc.hung
  /\ LET w == processColumnChunkMap(file, CHUNK_SIZE, NUM_THREADS, chunk.start,
                                    chunk.end, chunk.rowCount, chunk.data,
                                    chunk.rowCursor, t)
     IN /\ chunk' = [chunk EXCEPT !.data = w.data, !.rowCursor = w.rowCursor,
                                  !.rowOffsets = w.rowCursor,
                                  !.localMaps[t + 1] = w.maps]
        /\ finished' = IF w.hung THEN finished
                       ELSE [done |-> finished.done \cup {t}, last |-> t]
        /\ fpc' = IF w.hung THEN [fpc EXCEPT !.hung = fpc.hung \cup {t}] ELSE fpc
  /\ UNCHANGED <<buildState, lastCall, wide, tokenCall, sequential, COLUMNS_PER_CHUNK, globalDict, meta>>

\* Worker t of the slab: processColumnChunkMap(chunk, t). A worker that
\* loops for ever never returns.
MapWorker(t) ==
  /\ fpc.at = "map"
  /\ t \in Threads
  /\ t \notin finished.done \cup fpc.hung
  /\ LET w == processColumnChunkMap(file, CHUNK_SIZE, NUM_THREADS, chunk.start,
                                    chunk.end, chunk.rowCount, chunk.data,
                                    chunk.rowCursor, t)
     IN /\ chunk' = [chunk EXCEPT !.data = w.data, !.rowCursor = w.rowCursor,
                                  !.localMaps[t + 1] = w.maps]
        /\ finished' = IF w.hung THEN finished
                       ELSE [done |-> finished.done \cup {t}, last |-> t]
        /\ fpc' = IF w.hung THEN [fpc EXCEPT !.hung = fpc.hung \cup {t}] ELSE fpc
  /\ UNCHANGED <<buildState, lastCall, wide, tokenCall, sequential, COLUMNS_PER_CHUNK, globalDict, meta>>

\* processColumnChunk after the joins (lines 687-756) and the metadata
\* record appended by mapIntTranspose (lines 810-817).
SlabMerge ==
  /\ fpc.at = "map"
  /\ finished.done = Threads
  /\ LET ncols == chunk.end - chunk.start
         order == ThreadVisitOrder(NUM_THREADS, finished)
         g == [k \in 1..ncols |-> BuildGlobalDict(chunk.localMaps, k - 1, order)]
         relabelled == Relabel(chunk.data, chunk.localMaps, g, chunk.rowCount, NUM_THREADS)
     IN /\ globalDict' = g
        /\ chunk' = [chunk EXCEPT !.data = relabelled]
        /\ meta' = Append(meta, [ncols |-> ncols, maxGlobalId |-> MaxGlobalId(relabelled)])
  /\ fpc' = [fpc EXCEPT !.at = "merged"]
  /\ UNCHANGED <<buildState, lastCall, wide, tokenCall, sequential, COLUMNS_PER_CHUNK, finished>>

\* The slab's buffers are freed and the loop advances (lines 819-825, 784).
SlabEnd ==
  /\ fpc.at = "merged"
  /\ chunk' = [chunk EXCEPT !.data = <<>>, !.localMaps = <<>>]
  /\ fpc' = [fpc EXCEPT !.at = "loop", !.col = fpc.col + COLUMNS_PER_CHUNK]
  /\ finished' = NoneFinished
  /\ globalDict' = <<>>
  /\ UNCHANGED <<buildState, lastCall, wide, tokenCall, sequential, COLUMNS_PER_CHUNK, meta>>

\* The column loop ends and the row arrays are freed (lines 827-828).
MapIntTransposeEnd ==
  /\ fpc.at = "loop"
  /\ fpc.col >= colCount
  /\ chunk' = [chunk EXCEPT !.rowOffsets = <<>>, !.rowCursor = <<>>]
  /\ fpc' = [fpc EXCEPT !.at = "finished"]
  /\ UNCHANGED <<buildState, lastCall, wide, tokenCall, sequential, COLUMNS_PER_CHUNK, finished, globalDict, meta>>

NextFactor ==
  \/ BuildIndex
  \/ MapIntTransposeBegin
  \/ SlabBegin
  \/ \E t \in 0..MaxThreads : MapWorker(t)
  \/ SlabMerge
  \/ SlabEnd
  \/ MapIntTransposeEnd

SpecFactor == InitFactor /\ [][NextFactor]_vars

\* -------------------- the factorizer on small buffers -------------------
\* `h\na\nb`: the last data row ends at EOF without a newline.
ScenarioNoFinalNewline ==
  <<"h", "\n", "a", "\n", "b">>

\* `h\naaa\nb\n`: a field longer than the small read buffers.
ScenarioLongField ==
  <<"h", "\n", "a", "a", "a", "\n", "b", "\n">>

BufferFiles == TablesOf(1, 2) \cup {ScenarioNoFinalNewline, ScenarioLongField}

InitBuffers ==
  /\ InitBuild(BufferFiles, ThreadCounts, ChunkSizes)
  /\ wide = NoWide
  /\ InitFactorIdle(SlabSizes)

SpecBuffers == InitBuffers /\ [][NextFactor]_vars

\* Some thread can take a step: the guards of the actions of NextFactor. A
\* worker that spins in its while loop takes no step that changes the
\* state, and the join of line 687 waits for it.
Runnable ==
  \/ pc = "start"
  \/ pc = "done" /\ fpc.at = "idle"
  \/ fpc.at \in {"loop", "merged"}
  \/ fpc.at = "map" /\ (finished.done = Threads \/
                         Threads \ (finished.done \cup fpc.hung) # {})


\* ========================= the whole pipeline ==========================
\* parseHeaderRow, findRowOffsets with its workers as separate steps, then
\* mapIntTranspose with its workers as separate steps.
NextPipeline ==
  \/ ParseHeaderRow
  \/ FindRowOffsetsBegin
  \/ \E t \in 1..MaxThreads : Resync(t)
  \/ SpawnParse
  \/ \E t \in 0..MaxThreads : ParseSlice(t)
  \/ Merge
  \/ MapIntTransposeBegin
  \/ SlabBegin
  \/ \E t \in 0..MaxThreads : MapWorker(t)
  \/ SlabMerge
  \/ SlabEnd
  \/ MapIntTransposeEnd

SpecPipeline == InitPipeline /\ [][NextPipeline]_vars

\* ======================= reference: one sequential scan ================
\* The row structure of the file as one scan from offset 0 sees it, stated
\* by quote parity: a byte is outside quotes iff an even number of quote
\* bytes precedes it.
NumQuotes(f, p) == Cardinality({k \in 1..p : f[k] = QUOTE})
Unquoted(f, p) == NumQuotes(f, p) % 2 = 0

\* The byte at offset p is an unquoted CR or LF.
TerminatorAt(f, p) == p \in 0..(Len(f) - 1) /\ f[p + 1] \in {CR, LF} /\ Unquoted(f, p)

\* Offset p is the first byte after a row terminator (LF, lone CR or CRLF).
AfterTerminatorAt(f, p) ==
  /\ p \in 1..Len(f)
  /\ TerminatorAt(f, p - 1)
  /\ ~(f[p] = CR /\ p < Len(f) /\ f[p + 1] = LF)

RowStartAt(f, p) == p = 0 \/ AfterTerminatorAt(f, p)

MinOf(set) == CHOOSE m \in set : \A n \in set : m <= n

\* First byte after row r: the next row start, or the file size.
RowStop(f, r) == MinOf({q \in (r + 1)..Len(f) : AfterTerminatorAt(f, q)} \cup {Len(f)})

\* Data rows: every row start after the header row that is inside the file.
DataRowStarts(f) == {p \in 1..(Len(f) - 1) : AfterTerminatorAt(f, p)}

FieldCount(f, r) ==
  1 + Cardinality({p \in r..(RowStop(f, r) - 1) : f[p + 1] = COMMA /\ Unquoted(f, p)})

NotBlank(f, r) == \E p \in r..(RowStop(f, r) - 1) : f[p + 1] \notin {SPACE, TAB, CR, LF}

RECURSIVE SortedSeq(_)
SortedSeq(set) ==
  IF set = {} THEN <<>> ELSE LET m == MinOf(set) IN <<m>> \o SortedSeq(set \ {m})

Range(sq) == {sq[k] : k \in DOMAIN sq}
StrictlyIncreasing(sq) == \A j, k \in DOMAIN sq : j < k => sq[j] < sq[k]

\* =============================== claims ================================

\* The row offsets one worker over [firstData, fileSize) writes (N = 1).
SingleThreaded ==
  parse_slice_to_file(file, CHUNK_SIZE, firstData, Len(file), colCount, skipRows).out

\* C1: for every file and worker count the merged row_offsets.bin equals
\* the one a single worker over [firstData, fileSize) writes.
C1_SliceIndependence ==
  (pc = "done" /\ CHUNK_SIZE = DEFAULT_CHUNK_SIZE) => rowOffsetsBin = SingleThreaded

\* C2: every handoff[t], t in [1, N), is a true row start of the file or
\* fileSize, and no data row is emitted twice or missed.
C2_HandoffIsRowBoundary ==
  (pc \in {"parse", "done"} /\ CHUNK_SIZE = DEFAULT_CHUNK_SIZE) =>
     /\ \A t \in 1..(NUM_THREADS - 1) :
           handoff[t] = Len(file) \/ RowStartAt(file, handoff[t])
     /\ pc = "done" =>
           /\ \A j, k \in DOMAIN rowOffsetsBin : j # k => rowOffsetsBin[j] # rowOffsetsBin[k]
           /\ Range(SingleThreaded) \subseteq Range(rowOffsetsBin)

\* C3: the written array is strictly increasing, every entry is below
\* fileSize and is offset 0 or the byte after a row terminator.
C3_RowOffsetMonotone ==
  (pc = "done" /\ CHUNK_SIZE = DEFAULT_CHUNK_SIZE) =>
     /\ StrictlyIncreasing(rowOffsetsBin)
     /\ \A k \in DOMAIN rowOffsetsBin :
           /\ rowOffsetsBin[k] < Len(file)
           /\ RowStartAt(file, rowOffsetsBin[k])

\* Data rows the claims call well-formed / faulty, by the reference scan.
NonBlankRows == {r \in DataRowStarts(file) : NotBlank(file, r)}
MatchingRows == {r \in NonBlankRows : FieldCount(file, r) = colCount}

\* C4: with skipping enabled the number of offsets is the number of
\* non-blank data rows whose field count equals the header's; with skipping
\* disabled it is the number of non-blank data rows, and a build over a
\* file holding a non-blank row of another width does not complete.
C4_RowOffsetCompleteness ==
  (pc = "done" /\ CHUNK_SIZE = DEFAULT_CHUNK_SIZE /\ NUM_THREADS = 1) =>
     /\ skipRows => Len(rowOffsetsBin) = Cardinality(MatchingRows)
     /\ ~skipRows => /\ Len(rowOffsetsBin) = Cardinality(NonBlankRows)
                     /\ MatchingRows = NonBlankRows

\* The commas of the data rows that lie outside quotes.
UnquotedCommas == {p \in firstData..(Len(file) - 1) : file[p + 1] = COMMA /\ Unquoted(file, p)}

\* C5: the field count of width validation is the number of unquoted commas
\* plus one, a comma after a closing quote included; the row of the quoted
\* scenario has 2 fields and its offset (11) is emitted.
C5_FieldCountOfQuotedRow ==
  (pc \in {"done", "terminated"} /\ CHUNK_SIZE = DEFAULT_CHUNK_SIZE /\ NUM_THREADS = 1) =>
     /\ (pc = "done" => Range(workerLog[0].commas) = UnquotedCommas)
     /\ (file = ScenarioQuoted => pc = "done" /\ rowOffsetsBin = <<11>>)

\* A buffer size that holds the whole file.
WholeFile == Len(file) + 1

\* C7: with every read-buffer size each scan gives the result it gives with
\* a buffer that holds the whole file.
C7_BufferIndependence ==
  /\ pc # "start" =>
        /\ headerBin = parseHeaderRow(file, WholeFile).bin
        /\ colCount = parseHeaderRow(file, WholeFile).colCount
  /\ (firstData # Unset /\ Len(file) > 0) => firstData = find_first_data_offset(file, WholeFile)
  /\ \A t \in resynced : handoff[t] = resync_to_next_row_start(file, WholeFile, S[t])
  /\ \A t \in parsed :
        LET r == parse_slice_to_file(file, WholeFile, handoff[t], handoff[t + 1],
                                     colCount, skipRows)
        IN IF r.terminated THEN pc = "terminated"
           ELSE pc = "done" \/ (parts[t] = r.out /\ threadRowCounts[t] = r.rows)

\* C8: with skipFaultyRows = true blank rows and rows of another width are
\* dropped, the scan goes on and every well-formed row is emitted with its
\* own start offset; the blank-and-faulty scenario yields offsets [4, 11]
\* and row count 2.
C8_SkipDropsAndContinues ==
  (skipRows /\ pc \notin {"start", "header"}) =>
     /\ pc # "terminated"
     /\ pc = "done" =>
          /\ \A r \in DataRowStarts(file) \ MatchingRows : r \notin Range(rowOffsetsBin)
          /\ \A r \in MatchingRows : r \in Range(rowOffsetsBin)
          /\ file = ScenarioBlankFaulty => (rowOffsetsBin = <<4, 11>> /\ rowCount = 2)

\* C9: with skipFaultyRows = false a non-blank data row whose field count
\* differs from the header's aborts the build, the diagnostic names that
\* row's start offset and the expected and found field counts, and no merged
\* row_offsets.bin is written; a build that completes met no such row.
C9_AbortOnWidthMismatch ==
  (~skipRows /\ CHUNK_SIZE = DEFAULT_CHUNK_SIZE /\ NUM_THREADS = 1) =>
     /\ pc = "done" => MatchingRows = NonBlankRows
     /\ pc = "terminated" =>
          /\ rowOffsetsBin = <<>>
          /\ NonBlankRows \ MatchingRows # {}
          /\ diag.offset = MinOf(NonBlankRows \ MatchingRows)
          /\ diag.expected = colCount
          /\ diag.found = FieldCount(file, diag.offset)

NumQuotesIn(f, a, b) == Cardinality({k \in a..b : f[k + 1] = QUOTE})
\* Offset k holds the closing quote of the quoted header field opened at fb.
ClosesQuoteAt(f, fb, k) ==
  /\ f[k + 1] = QUOTE
  /\ NumQuotesIn(f, fb + 1, k) % 2 = 1
  /\ ByteAt(f, k + 1) # QUOTE
\* The byte at offset b, closing the header field that begins at fb, lies
\* outside quotes: the field is unquoted and holds no earlier delimiter, or
\* b is the first delimiter after the field's closing quote.
HeaderCloseOutsideQuotes(f, fb, b) ==
  /\ f[b + 1] \in {COMMA, CR, LF}
  /\ IF f[fb + 1] = QUOTE
       THEN \E k \in (fb + 1)..(b - 1) :
              /\ ClosesQuoteAt(f, fb, k)
              /\ \A j \in (fb + 1)..(k - 1) : ~ClosesQuoteAt(f, fb, j)
              /\ \A j \in (k + 1)..(b - 1) : f[j + 1] \notin {COMMA, CR, LF}
       ELSE \A j \in fb..(b - 1) : f[j + 1] \notin {COMMA, CR, LF}
HeaderFieldBegin(k) == IF k = 1 THEN 0 ELSE headerCloses[k - 1] + 1

\* C6: a row terminator is reported only for a CR or LF outside quotes and
\* a field is closed or counted only at a comma or terminator outside
\* quotes: in parseHeaderRow, in find_first_data_offset and in every parse
\* worker that started at a true row start.
C6_QuotedContentNeutral ==
  /\ \A k \in DOMAIN headerCloses :
        HeaderCloseOutsideQuotes(file, HeaderFieldBegin(k), headerCloses[k])
  /\ (firstData # Unset /\ Len(file) > 0) =>
        LET r == ScanToRowEnd(file, CHUNK_SIZE, ScanInit(0))
        IN r.term # Unset => TerminatorAt(file, r.term)
  /\ \A t \in parsed :
        RowStartAt(file, workerLog[t].start) =>
           /\ \A k \in DOMAIN workerLog[t].terms : TerminatorAt(file, workerLog[t].terms[k])
           /\ \A k \in DOMAIN workerLog[t].commas :
                 /\ file[workerLog[t].commas[k] + 1] = COMMA
                 /\ Unquoted(file, workerLog[t].commas[k])
\* C6 witness: the scenario with a comma and a line break inside a quoted
\* header field and inside a quoted data field, scanned by one worker.
C6_Witness ==
  /\ file = ScenarioQuotedBreaks
  /\ NUM_THREADS = 1
  /\ pc = "done"
  /\ headerCloses = <<5>>
  /\ firstData = 6
  /\ workerLog[0].terms = <<12>>
  /\ workerLog[0].commas = <<>>
  /\ rowOffsetsBin = <<6>>


\* C10 as written: the CRLF scenario yields the row offsets [4, 11].
C10_Original ==
  (file = ScenarioCRLF /\ pc = "done") => rowOffsetsBin = <<4, 11>>
\* C10 amended: for `x,y\r\n10,20\r\n30,40` findRowOffsets writes exactly
\* the row offsets [5, 12] (the header's CRLF occupies offsets 3-4) and the
\* row count is 2, with every worker count and buffer size.
C10_CRLFScenario ==
  (file = ScenarioCRLF /\ pc \notin {"start", "header"}) =>
     /\ pc \notin {"terminated", "returned_early"}
     /\ firstData = 5
     /\ pc = "done" => (rowOffsetsBin = <<5, 12>> /\ rowCount = 2)
\* C10 witness: the CRLF scenario built with the default configuration.
C10_Witness ==
  /\ file = ScenarioCRLF
  /\ NUM_THREADS = DEFAULT_NUM_THREADS
  /\ CHUNK_SIZE = DEFAULT_CHUNK_SIZE
  /\ pc = "done"
  /\ rowOffsetsBin = <<5, 12>>

\* ===================== reference: the header row's fields ==============
\* The delimiter that closes the field beginning at fb (the first byte at
\* which the field can close), or the file size when the file ends first.
RefFieldEnd(f, fb) ==
  MinOf({b \in fb..(Len(f) - 1) : HeaderCloseOutsideQuotes(f, fb, b)} \cup {Len(f)})

\* The fields of the header row from the one beginning at fb on: each is
\* [b |-> first byte, e |-> closing delimiter or file size].
RECURSIVE RefFieldsFrom(_, _)
RefFieldsFrom(f, fb) ==
  LET e == RefFieldEnd(f, fb) IN
    IF e < Len(f) /\ f[e + 1] = COMMA
      THEN <<[b |-> fb, e |-> e]>> \o RefFieldsFrom(f, e + 1)
      ELSE <<[b |-> fb, e |-> e]>>
HeaderFields(f) == IF Len(f) = 0 THEN <<>> ELSE RefFieldsFrom(f, 0)

\* A quoted field is one whose first byte is a quote; it is well formed
\* when its closing quote is the byte before e. Unquoted fields are well
\* formed when they hold no quote.
FieldQuoted(f, fld) == fld.b < fld.e /\ f[fld.b + 1] = QUOTE
FieldWellFormed(f, fld) ==
  IF FieldQuoted(f, fld)
    THEN /\ fld.e - 1 > fld.b
         /\ ClosesQuoteAt(f, fld.b, fld.e - 1)
         /\ \A j \in (fld.b + 1)..(fld.e - 2) : ~ClosesQuoteAt(f, fld.b, j)
    ELSE \A j \in fld.b..(fld.e - 1) : f[j + 1] # QUOTE

\* Offset of the first content byte and the content bytes of a field.
FieldContentStart(f, fld) == IF FieldQuoted(f, fld) THEN fld.b + 1 ELSE fld.b
FieldContent(f, fld) ==
  IF FieldQuoted(f, fld) THEN SubSeq(f, fld.b + 2, fld.e - 1)
  ELSE SubSeq(f, fld.b + 1, fld.e)

\* s without its leading and trailing white space.
Trimmed(s) ==
  LET keep == {k \in DOMAIN s : ~isspace(s[k])} IN
    IF keep = {} THEN <<>>
    ELSE SubSeq(s, MinOf(keep), CHOOSE m \in keep : \A n \in keep : n <= m)

\* s with every doubled quote replaced by one quote (the quotes of a well
\* formed quoted field's content come in pairs).
RECURSIVE Undoubled(_)
Undoubled(s) ==
  IF s = <<>> THEN <<>>
  ELSE IF Len(s) >= 2 /\ s[1] = QUOTE /\ s[2] = QUOTE
    THEN <<QUOTE>> \o Undoubled(SubSeq(s, 3, Len(s)))
    ELSE <<s[1]>> \o Undoubled(Tail(s))

\* The header name of a field.
HeaderName(f, fld) == Trimmed(Undoubled(FieldContent(f, fld)))

\* C11: getHeader(i) for a column i of the header row returns the field's
\* content, doubled quotes unescaped and white space trimmed.
C11_GetHeaderIsFieldContent ==
  (lastCall.op = "getHeader" /\ lastCall.col < Len(HeaderFields(file))
      /\ FieldWellFormed(file, HeaderFields(file)[lastCall.col + 1])) =>
     /\ lastCall.error = "none"
     /\ lastCall.value = HeaderName(file, HeaderFields(file)[lastCall.col + 1])

\* C12: every header index entry holds start = offset of the field's first
\* content byte and length = the number of content bytes (0 for an empty
\* field); for the header `name,quote` the entry of `quote` has length 5.
C12_EntryHoldsStartAndLength ==
  pc # "start" =>
     /\ \A k \in DOMAIN headerBin :
           (k <= Len(HeaderFields(file)) /\ FieldWellFormed(file, HeaderFields(file)[k])) =>
              /\ headerBin[k].start = FieldContentStart(file, HeaderFields(file)[k])
              /\ headerBin[k].length = Len(FieldContent(file, HeaderFields(file)[k]))
     /\ file = ScenarioQuoted => headerBin[2] = [start |-> 5, length |-> 5]

\* C13: after parseHeaderRow getColumnCount() equals the number of fields
\* of the header row and the colCount member, also for a header row that
\* ends at EOF and for one that ends with a trailing comma.
C13_RecordCountIsColumnCount ==
  lastCall.op = "getColumnCount" =>
     /\ lastCall.count = Len(HeaderFields(file))
     /\ lastCall.count = colCount

\* C14: getHeader(i) returns the empty string for every empty header
\* field: empty unquoted, empty quoted, and empty at offset 0.
C14_EmptyFieldGivesEmptyString ==
  (lastCall.op = "getHeader" /\ lastCall.col < Len(HeaderFields(file))
      /\ FieldWellFormed(file, HeaderFields(file)[lastCall.col + 1])
      /\ FieldContent(file, HeaderFields(file)[lastCall.col + 1]) = <<>>) =>
     /\ lastCall.error = "none"
     /\ lastCall.value = <<>>

\* C15: a header field of at most 65535 content bytes is stored and read
\* back correctly wherever it lies in the header row, also at offsets
\* above 65535: getHeader reads exactly the field's n content bytes.
C15_FieldAtAnyOffset ==
  (wide.pc = "read" /\ wide.n > 0) =>
     wide.slice = [empty |-> FALSE, from |-> wide.fieldStart, len |-> wide.n]

\* C16: getHeader(i) with i at or beyond the number of header index
\* records throws out_of_range and leaves the header index file, the
\* row-offset file, colCount and rowCount as they were.
C16_OutOfRangeChangesNothing ==
  [][(lastCall' # lastCall /\ lastCall'.op = "getHeader"
        /\ lastCall'.col >= Len(headerBin)) =>
       /\ lastCall'.error = "out_of_range"
       /\ UNCHANGED <<headerBin, rowOffsetsBin, colCount, rowCount>>]_vars
\* C16 witness: the three-column scenario after its build, getHeader(3).
C16_Witness ==
  /\ file = ScenarioThreeByThree
  /\ pc = "done"
  /\ rowOffsetsBin = <<6, 12>>
  /\ Len(headerBin) = 3
  /\ lastCall.op = "getHeader"
  /\ lastCall.col = 3
  /\ lastCall.error = "out_of_range"

\* ================== reference: the fields of a data row ================
\* The byte at offset p of the row beginning at o lies outside quotes.
UnquotedInRow(f, o, p) == NumQuotesIn(f, o, p - 1) % 2 = 0

\* The row's terminator (or the file size) and its field delimiters.
RowEndOf(f, o) ==
  MinOf({p \in o..(Len(f) - 1) : f[p + 1] \in {CR, LF} /\ UnquotedInRow(f, o, p)}
        \cup {Len(f)})
RowCommas(f, o) ==
  {p \in o..(RowEndOf(f, o) - 1) : f[p + 1] = COMMA /\ UnquotedInRow(f, o, p)}

\* The bytes of field c (counted from 0) of the row beginning at o, white
\* space trimmed; the row has more than c fields.
RowHasField(f, o, c) == c <= Cardinality(RowCommas(f, o))
FieldText(f, o, c) ==
  LET commas == SortedSeq(RowCommas(f, o))
      from == IF c = 0 THEN o ELSE commas[c] + 1
      to == IF c < Len(commas) THEN commas[c + 1] ELSE RowEndOf(f, o)
  IN Trimmed(SubSeq(f, from + 1, to))

\* row_offsets.bin holds one offset for every row counted.
IndexComplete == Len(rowOffsetsBin) = rowCount

\* The text in slab column k (from 1) of row r (from 1) of the slab.
CellText(k, r) == FieldText(file, chunk.rowOffsets[r], chunk.start + k - 1)

\* C17: after processColumnChunk two rows hold the same code in a column
\* of the slab exactly when their tokens in that column are equal,
\* whichever workers processed them.
C17_CodesAreBijective ==
  (fpc.at = "merged" /\ IndexComplete) =>
     \A k \in DOMAIN chunk.data : \A r1, r2 \in DOMAIN chunk.data[k] :
        (chunk.data[k][r1] = chunk.data[k][r2]) <=> (CellText(k, r1) = CellText(k, r2))
\* C17 witness: four rows a, b, a, b split between two workers.
C17_Witness ==
  /\ fpc.at = "merged"
  /\ NUM_THREADS = 2
  /\ file = TableFile(1, <<<< <<"a">> >>, << <<"b">> >>, << <<"a">> >>, << <<"b">> >>>>)
  /\ chunk.data = << <<0, 1, 0, 1>> >>

\* The number of distinct texts in slab column k and the largest cell.
DistinctInColumn(k) == Cardinality({CellText(k, r) : r \in DOMAIN chunk.data[k]})
MaxOf(set) == CHOOSE m \in set : \A n \in set : n <= m
LargestCode == MaxOf(UNION {{chunk.data[k][r] : r \in DOMAIN chunk.data[k]} : k \in DOMAIN chunk.data})
LastMeta == meta[Len(meta)]

RECURSIVE WorkersInOrder(_, _)
WorkersInOrder(ch, t) ==
  IF t >= NUM_THREADS THEN ch
  ELSE LET w == processColumnChunkMap(file, CHUNK_SIZE, NUM_THREADS, ch.start, ch.end,
                                      ch.rowCount, ch.data, ch.rowCursor, t)
       IN WorkersInOrder([ch EXCEPT !.data = w.data, !.rowCursor = w.rowCursor,
                                    !.localMaps[t + 1] = w.maps], t + 1)

\* The slabs from column col up to the merge of the slab beginning at
\* column last: the chunk and the metadata file at that point.
RECURSIVE SlabsInOrder(_, _, _, _)
SlabsInOrder(ch, metaFile, col, last) ==
  LET end == Min(col + COLUMNS_PER_CHUNK, colCount)
      ncols == end - col
      begun == [ch EXCEPT !.start = col, !.end = end,
                          !.data = [k \in 1..ncols |-> [r \in 1..ch.rowCount |-> Uninit]],
                          !.localMaps = [t \in 1..NUM_THREADS |-> [k \in 1..ncols |-> <<>>]]]
      mapped == WorkersInOrder(begun, 0)
      g == [k \in 1..ncols |->
              BuildGlobalDict(mapped.localMaps, k - 1, [t \in 1..NUM_THREADS |-> t - 1])]
      data == Relabel(mapped.data, mapped.localMaps, g, ch.rowCount, NUM_THREADS)
      merged == [mapped EXCEPT !.data = data]
      metaFile2 == Append(metaFile, [ncols |-> ncols, maxGlobalId |-> MaxGlobalId(data)])
  IN IF col = last THEN [chunk |-> merged, meta |-> metaFile2]
     ELSE SlabsInOrder(merged, metaFile2, col + COLUMNS_PER_CHUNK, last)

\* C19: with fixed N and slab width the code matrix and the metadata of
\* every slab are the same for every interleaving of the workers: they
\* are the ones the workers produce when run one after the other.
C19_InterleavingIndependent ==
  fpc.at = "merged" =>
     LET one == SlabsInOrder([NoChunk EXCEPT !.rowCount = rowCount,
                                             !.rowOffsets = chunk.rowOffsets,
                                             !.rowCursor = chunk.rowOffsets],
                             <<>>, 0, fpc.col)
     IN /\ chunk.data = one.chunk.data
        /\ chunk.rowCursor = one.chunk.rowCursor
        /\ meta = one.meta
\* C19 witness: two workers of which the one with the higher index
\* returned first.
C19_Witness ==
  /\ fpc.at = "merged"
  /\ NUM_THREADS = 2
  /\ finished = [done |-> {0, 1}, last |-> 0]
  /\ file = TableFile(1, <<<< <<"b">> >>, << <<"a">> >>>>)
  /\ chunk.data = << <<0, 1>> >>
  /\ meta = <<[ncols |-> 1, maxGlobalId |-> 1]>>

\* The rows before r whose text in slab column k differs from every
\* earlier row's: the tokens first seen before row r.
FirstSeenBefore(k, r) == {CellText(k, q) : q \in 1..(r - 1)}

\* C20: the global codes of a column follow insertion order (threads in
\* ascending index hold ascending row blocks, tokens in first-seen order):
\* a token's code is the number of distinct tokens first seen before it,
\* so the first token seen gets code 0.
C20_CodesInFirstSeenOrder ==
  (fpc.at = "merged" /\ IndexComplete) =>
     \A k \in DOMAIN chunk.data : \A r \in DOMAIN chunk.data[k] :
        chunk.data[k][r] = Cardinality(FirstSeenBefore(k, r) \ {CellText(k, r)})

\* ==================== findRowOffsets: the files it leaves ===============
\* findRowOffsets returns in this step: after the merge or by one of its
\* two early returns.
FindRowOffsetsReturns == pc \in {"header", "parse"} /\ pc' \in {"done", "returned_early"}

\* C25: when findRowOffsets returns, getRowCount() is the sum of the
\* per-worker row counts and the number of entries of row_offsets.bin, the
\* merged file is the concatenation of the part files in thread-index
\* order, and no part file remains.
C25_MergeIsConcatenation ==
  [][FindRowOffsetsReturns =>
       /\ rowCount' = Len(rowOffsetsBin')
       /\ parts' = <<>>
       /\ pc' = "done" =>
             /\ rowCount' = Sum(threadRowCounts, NUM_THREADS - 1)
             /\ rowOffsetsBin' = Concat(parts, NUM_THREADS - 1)]_vars

\* C24: every findRowOffsets call leaves in row_offsets.bin exactly the
\* offsets of the current source file, whatever an earlier build left
\* there: what the call writes in a fresh directory, and no entry for an
\* empty source file or one that ends with its header row.
C24_IndexRewrittenOnEveryBuild ==
  [][FindRowOffsetsReturns =>
       rowOffsetsBin' =
          IF pc' = "done"
            THEN findRowOffsets(file, CHUNK_SIZE, NUM_THREADS, colCount, skipRows).out
            ELSE <<>>]_vars

\* ================== reference: the value of a data field ===============
\* The bytes of field c of the row beginning at o, between its delimiters.
FieldBytes(f, o, c) ==
  LET commas == SortedSeq(RowCommas(f, o))
      from == IF c = 0 THEN o ELSE commas[c] + 1
      to == IF c < Len(commas) THEN commas[c + 1] ELSE RowEndOf(f, o)
  IN SubSeq(f, from + 1, to)

\* A field's value: without the quote bytes that surround it, doubled
\* quotes replaced by one quote, white space trimmed.
FieldValue(raw) ==
  LET t == Trimmed(raw) IN
    IF Len(t) >= 2 /\ t[1] = QUOTE /\ t[Len(t)] = QUOTE
      THEN Trimmed(Undoubled(SubSeq(t, 2, Len(t) - 1)))
      ELSE t
CellValue(k, r) == FieldValue(FieldBytes(file, chunk.rowOffsets[r], chunk.start + k - 1))

\* C21: the tokens in a column's dictionary are the values of the column's
\* fields (quotes stripped, doubled quotes undoubled, white space trimmed),
\* so two fields with the same value, as `"a"` and `a`, get the same code.
C21_TokensAreFieldValues ==
  (fpc.at = "merged" /\ IndexComplete) =>
     \A k \in DOMAIN chunk.data :
        /\ DOMAIN globalDict[k] = {CellValue(k, r) : r \in DOMAIN chunk.data[k]}
        /\ \A r1, r2 \in DOMAIN chunk.data[k] :
              CellValue(k, r1) = CellValue(k, r2) => chunk.data[k][r1] = chunk.data[k][r2]

\* ================ reference: the buffer of a getTokens call ============
\* The bytes the call read: offsets [cursor, BufferEnd).
BufferEnd == Min(tokenCall.cursor + CHUNK_SIZE, Len(file))
\* Unquoted commas and row terminators in the buffer, the quote state
\* starting at the cursor.
BufferCommas ==
  {p \in tokenCall.cursor..(BufferEnd - 1) :
     file[p + 1] = COMMA /\ UnquotedInRow(file, tokenCall.cursor, p)}
BufferTerminators ==
  {p \in tokenCall.cursor..(BufferEnd - 1) :
     file[p + 1] \in {CR, LF} /\ UnquotedInRow(file, tokenCall.cursor, p)}
\* The buffer ends inside a field: no terminator in it and fewer commas
\* than tokens asked for.
ExhaustedMidField ==
  BufferTerminators = {} /\ Cardinality(BufferCommas) < tokenCall.max

\* C23: a getTokens call with maxTokens > 0 returns a token or moves the
\* cursor forward; when the buffer is exhausted inside a field the cursor
\* is the byte after the last comma completed, or the end of the buffer
\* when there was none.
C23_GetTokensProgress ==
  (tokenCall.pc = "returned" /\ tokenCall.max > 0) =>
     /\ tokenCall.tokens # <<>> \/ tokenCall.after > tokenCall.cursor
     /\ ExhaustedMidField =>
           tokenCall.after = IF BufferCommas = {} THEN BufferEnd
                             ELSE MaxOf(BufferCommas) + 1

\* ================== reference: a row's cursor between slabs ============
\* The first byte after the row beginning at o: after its terminator, a
\* CRLF counted as one, or the file size.
RowAfter(f, o) ==
  LET e == RowEndOf(f, o) IN
    IF e >= Len(f) THEN Len(f)
    ELSE IF f[e + 1] = CR /\ ByteAt(f, e + 1) = LF THEN e + 2
    ELSE e + 1

\* The byte that begins field c (counted from 0) of the row beginning at
\* o, or the byte after the row when it has c fields.
FieldBegin(f, o, c) ==
  LET commas == SortedSeq(RowCommas(f, o)) IN
    IF c = 0 THEN o
    ELSE IF c <= Len(commas) THEN commas[c] + 1
    ELSE RowAfter(f, o)

\* The token whose code cell (k, r) holds after the relabel.
StoredToken(k, r) ==
  CHOOSE key \in DOMAIN globalDict[k] : globalDict[k][key] = chunk.data[k][r]

\* C22: after a slab every row's cursor is at the byte that begins the
\* row's field for the next slab's first column, after the last slab it is
\* past the row's terminator, and the token of cell (row, col) is the
\* field col of that row.
C22_CursorFollowsSlabs ==
  (fpc.at = "merged" /\ IndexComplete) =>
     \A r \in 1..chunk.rowCount :
        /\ chunk.rowCursor[r] =
              IF chunk.end < colCount
                THEN FieldBegin(file, chunk.rowOffsets[r], chunk.end)
                ELSE RowAfter(file, chunk.rowOffsets[r])
        /\ \A k \in DOMAIN chunk.data :
              /\ RowHasField(file, chunk.rowOffsets[r], chunk.start + k - 1)
              /\ \E key \in DOMAIN globalDict[k] : globalDict[k][key] = chunk.data[k][r]
              /\ StoredToken(k, r) = CellText(k, r)

\* ============================ spawn and join ===========================
\* The ordering one step of the pipeline has to respect.
C26_Step ==
  /\ (pc' = "parse") =>
       (/\ resynced' = 1..(NUM_THREADS - 1)
        /\ \A t \in 0..NUM_THREADS : handoff'[t] # Unset)
  /\ (parsed' # parsed) => (pc = "parse" /\ resynced = 1..(NUM_THREADS - 1))
  /\ (resynced' # resynced) => (pc = "resync" /\ parsed = {})
  /\ (pc = "parse" /\ pc' = "done") => parsed = Threads
  /\ (fpc.at # "merged" /\ fpc'.at = "merged") =>
       (fpc.at = "map" /\ finished.done = Threads /\ fpc.hung = {})
  /\ (finished'.done \ finished.done # {}) => (fpc.at = "map" /\ fpc'.at = "map")
  /\ (fpc.at # "map" /\ fpc'.at = "map") => finished' = NoneFinished
  /\ (fpc.at = "map" /\ fpc'.at # "map") => finished.done = Threads

\* C26: the phases are ordered by spawn and join. A parse worker runs only
\* when every resync worker has finished and written its handoff entry;
\* the merge starts only when every parse worker has finished; the global
\* dictionary build and relabel of a slab start only when every worker of
\* the slab has returned, and no worker of a slab runs once the slab has
\* been merged or the next slab begins.
C26_PhasesOrderedByJoin ==
  [][C26_Step]_vars
\* C26 witness: four workers in the row-offset build and in the second
\* slab of the factorizer, all of them joined.
C26_Witness ==
  /\ NUM_THREADS = 4
  /\ resynced = 1..3
  /\ parsed = 0..3
  /\ pc = "done"
  /\ fpc = [at |-> "merged", col |-> 1, hung |-> {}]
  /\ finished.done = 0..3

\* ====================== what a worker reads and writes =================
\* The rows (counted from 1) of worker t's block.
RowBlock(t) ==
  {r \in 1..chunk.rowCount :
     /\ StartingRow(chunk.rowCount, NUM_THREADS, t) <= r - 1
     /\ r - 1 < EndingRow(chunk.rowCount, NUM_THREADS, t)}

\* The blocks are contiguous, pairwise disjoint and cover [0, rowCount).
BlocksPartitionRows ==
  /\ StartingRow(chunk.rowCount, NUM_THREADS, 0) = 0
  /\ EndingRow(chunk.rowCount, NUM_THREADS, NUM_THREADS - 1) = chunk.rowCount
  /\ \A t \in 0..(NUM_THREADS - 2) :
        EndingRow(chunk.rowCount, NUM_THREADS, t) = StartingRow(chunk.rowCount, NUM_THREADS, t + 1)
  /\ \A t \in Threads :
        StartingRow(chunk.rowCount, NUM_THREADS, t) <= EndingRow(chunk.rowCount, NUM_THREADS, t)
  /\ \A t, u \in Threads : t # u => RowBlock(t) \cap RowBlock(u) = {}
  /\ UNION {RowBlock(t) : t \in Threads} = 1..chunk.rowCount

\* Worker t of the slab run on a chunk in which every cell and cursor of
\* the other workers' rows is blanked: what it computes from its own rows.
OnOwnRows(t) ==
  processColumnChunkMap(file, CHUNK_SIZE, NUM_THREADS, chunk.start, chunk.end,
    chunk.rowCount,
    [k \in DOMAIN chunk.data |->
       [r \in DOMAIN chunk.data[k] |-> IF r \in RowBlock(t) THEN chunk.data[k][r] ELSE Uninit]],
    [r \in DOMAIN chunk.rowCursor |-> IF r \in RowBlock(t) THEN chunk.rowCursor[r] ELSE 0],
    t)

\* The workers that take a step: resync, parse, dictionary build.
ResyncStepOf(t) == resynced' \ resynced = {t}
ParseStepOf(t) == parsed' \ parsed = {t}
MapStepOf(t) == (finished'.done \cup fpc'.hung) \ (finished.done \cup fpc.hung) = {t}

\* One step touches only what its worker owns.
C27_Step ==
  /\ \A t \in Threads :
        ResyncStepOf(t) =>
           /\ \A u \in DOMAIN handoff : u # t => handoff'[u] = handoff[u]
           /\ handoff[t] = Unset /\ handoff'[t] # Unset
           /\ UNCHANGED <<threadRowCounts, parts, S>>
  /\ \A t \in Threads :
        ParseStepOf(t) =>
           /\ \A u \in Threads \ {t} :
                 /\ threadRowCounts'[u] = threadRowCounts[u]
                 /\ (u \in DOMAIN parts => parts'[u] = parts[u])
                 /\ (u \in parsed => u \in DOMAIN parts)
           /\ UNCHANGED <<handoff, S>>
  /\ fpc'.at = "map" => BlocksPartitionRows'
  /\ \A t \in Threads :
        MapStepOf(t) =>
           /\ \A r \in (1..chunk.rowCount) \ RowBlock(t) :
                 /\ chunk'.rowCursor[r] = chunk.rowCursor[r]
                 /\ \A k \in DOMAIN chunk.data : chunk'.data[k][r] = chunk.data[k][r]
           /\ \A r \in RowBlock(t) :
                 /\ chunk'.rowCursor[r] = OnOwnRows(t).rowCursor[r]
                 /\ \A k \in DOMAIN chunk.data :
                       /\ chunk'.data[k][r] = OnOwnRows(t).data[k][r]
                       /\ chunk.data[k][r] = Uninit
           /\ chunk'.localMaps[t + 1] = OnOwnRows(t).maps
           /\ \A u \in Threads \ {t} : chunk'.localMaps[u + 1] = chunk.localMaps[u + 1]
           /\ chunk'.rowOffsets = chunk.rowOffsets

\* C27: no location is written by two concurrent workers or written by
\* one and read by another: handoff[t] and threadRowCounts[t] are written
\* by worker t only; the factorizer's row blocks are contiguous, disjoint
\* and cover [0, rowCount), a worker reads and writes the cells and
\* cursors of its own rows only, and localMaps[t] is touched by thread t
\* only.
C27_WorkersTouchOwnData ==
  [][C27_Step]_vars
\* C27 witness: three workers and the four rows a, b, a, b (blocks of 1, 1
\* and 2 rows), every resync, parse and dictionary worker returned.
C27_Witness ==
  /\ NUM_THREADS = 3
  /\ file = TableFile(1, <<<< <<"a">> >>, << <<"b">> >>, << <<"a">> >>, << <<"b">> >>>>)
  /\ resynced = 1..2
  /\ parsed = 0..2
  /\ chunk.rowOffsets = <<2, 4, 6, 8>>
  /\ fpc.at = "map"
  /\ finished.done = 0..2
  /\ RowBlock(0) = {1} /\ RowBlock(1) = {2} /\ RowBlock(2) = {3, 4}
  /\ chunk.data = << <<0, 0, 0, 1>> >>

\* ========================= column_chunk_meta.bin =======================
\* The slabs of a header of n columns with slab width w: their number and
\* the width of slab i (counted from 1).
SlabCount(n, w) == (n + w - 1) \div w
SlabWidth(n, w, i) == Min(w, n - (i - 1) * w)

\* The slabs whose record has been appended so far.
SlabsRecorded ==
  IF fpc.at = "idle" THEN 0
  ELSE IF fpc.at = "finished" THEN SlabCount(colCount, COLUMNS_PER_CHUNK)
  ELSE fpc.col \div COLUMNS_PER_CHUNK + (IF fpc.at = "merged" THEN 1 ELSE 0)

RECURSIVE SumNcols(_, _)
SumNcols(m, i) == IF i > Len(m) THEN 0 ELSE m[i].ncols + SumNcols(m, i + 1)

\* C28: mapIntTranspose truncates column_chunk_meta.bin once and appends
\* one (ncols, maxGlobalId) record per slab in slab order; every ncols is
\* in 1..columnsPerSlab, and at the end the records number
\* ceil(colCount / columnsPerSlab) and their ncols sum to the header's
\* column count.
C28_OneMetaRecordPerSlab ==
  fpc.at # "idle" =>
     /\ Len(meta) = SlabsRecorded
     /\ \A i \in DOMAIN meta :
           /\ meta[i].ncols = SlabWidth(colCount, COLUMNS_PER_CHUNK, i)
           /\ meta[i].ncols >= 1
           /\ meta[i].ncols <= COLUMNS_PER_CHUNK
     /\ fpc.at = "finished" =>
           /\ Len(meta) = SlabCount(colCount, COLUMNS_PER_CHUNK)
           /\ SumNcols(meta, 1) = colCount
           /\ colCount = Len(HeaderFields(file))
\* C28 witness: three columns in slabs of two give the records (2, 0) and
\* (1, 0).
C28_Witness ==
  /\ fpc.at = "finished"
  /\ colCount = 3
  /\ COLUMNS_PER_CHUNK = 2
  /\ meta = <<[ncols |-> 2, maxGlobalId |-> 0], [ncols |-> 1, maxGlobalId |-> 0]>>

\* ============== reference: the policies for malformed input ============
\* The row terminators from offset i on when a quote opens a quoted field
\* only as the first byte of a field, a quote inside an unquoted field is
\* content, and the end of the file closes an open quoted field. mode is
\* "start" (at the first byte of a field), "plain" (inside an unquoted
\* field or after a closing quote), "quoted", or "closing" (the byte after
\* a quote met inside a quoted field).
RECURSIVE PolicyTerminators(_, _, _)
PolicyTerminators(f, i, mode) ==
  IF i >= Len(f) THEN {}
  ELSE LET c == f[i + 1] IN
    IF mode = "quoted"
      THEN PolicyTerminators(f, i + 1, IF c = QUOTE THEN "closing" ELSE "quoted")
    ELSE IF c = QUOTE
      THEN PolicyTerminators(f, i + 1,
             IF mode = "plain" THEN "plain" ELSE "quoted")
    ELSE IF c = COMMA THEN PolicyTerminators(f, i + 1, "start")
    ELSE IF c = LF THEN {i} \cup PolicyTerminators(f, i + 1, "start")
    ELSE IF c = CR
      THEN {i} \cup PolicyTerminators(f, IF ByteAt(f, i + 1) = LF THEN i + 2 ELSE i + 1,
                                      "start")
    ELSE PolicyTerminators(f, i + 1, "plain")

\* C29: the scanner does not fail on malformed input; a file that ends
\* inside a quoted field is closed at EOF and its last row emitted, and a
\* quote in the middle of an unquoted field is content: it does not put
\* the scanner in quotes, and a CR or LF after it ends the row.
C29_MalformedInputPolicies ==
  (pc \in {"done", "terminated"} /\ skipRows /\ NUM_THREADS = 1
      /\ CHUNK_SIZE = DEFAULT_CHUNK_SIZE) =>
     /\ pc = "done"
     /\ Range(workerLog[0].terms) = PolicyTerminators(file, firstData, "start")

\* C30: firstData = handoff[0] <= handoff[1] <= ... <= handoff[N] = fileSize
\* for every input, and every parse worker emits only offsets of its own
\* range [handoff[t], handoff[t+1]), in ascending order.
C30_HandoffMonotone ==
  (pc \in {"parse", "done"}) =>
     /\ handoff[0] = firstData
     /\ handoff[NUM_THREADS] = Len(file)
     /\ \A t \in Threads : handoff[t] <= handoff[t + 1]
     /\ \A t \in (IF pc = "parse" THEN parsed ELSE {}) :
           /\ \A j \in DOMAIN parts[t] :
                 handoff[t] <= parts[t][j] /\ parts[t][j] < handoff[t + 1]
           /\ \A j, k \in DOMAIN parts[t] : j < k => parts[t][j] < parts[t][k]

\* ============== reference: resynchronisation from a split point ==========
\* The byte after the first row terminator at or after offset S that a scan
\* starting at S outside quotes meets, the byte at S fed to the scan like
\* every later byte; the file size when there is none.
ResyncIncludingS(f, split) ==
  IF split >= Len(f) THEN Len(f)
  ELSE ScanToRowEnd(f, Len(f) + 1, ScanFrom(split, FALSE)).next

\* C31: when the byte at S is not a quote, resync_to_next_row_start(S)
\* returns the byte after the next unquoted row terminator found scanning
\* forward from S, the byte at S included (S+1 when the byte at S is an LF
\* or a lone CR), and fileSize when no terminator follows.
C31_ResyncFromPlainByte ==
  (pc \in {"parse", "done"} /\ CHUNK_SIZE = DEFAULT_CHUNK_SIZE) =>
     \A t \in 1..(NUM_THREADS - 1) :
        ByteAt(file, S[t]) # QUOTE => handoff[t] = ResyncIncludingS(file, S[t])

\* The offset the lookahead at a quote byte gives when the byte at q (the
\* byte after the quote or the pair of quotes) is a row terminator or EOF.
AfterLookahead(f, q) ==
  IF ByteAt(f, q) = LF THEN q + 1
  ELSE IF ByteAt(f, q) = CR THEN (IF ByteAt(f, q + 1) = LF THEN q + 2 ELSE q + 1)
  ELSE Len(f)

\* C32: when the byte at S is a quote the result is decided by lookahead
\* (a terminator after the quote or after a pair of quotes: the byte after
\* the terminator, CRLF counted as two bytes; EOF: fileSize), and in every
\* case, the comma and the in-quotes cases included, the returned offset is
\* a true row start of the file or fileSize.
C32_ResyncFromQuoteByte ==
  (pc \in {"parse", "done"} /\ CHUNK_SIZE = DEFAULT_CHUNK_SIZE) =>
     \A t \in 1..(NUM_THREADS - 1) :
        ByteAt(file, S[t]) = QUOTE =>
          /\ ByteAt(file, S[t] + 1) \in {LF, CR, EOF} =>
                handoff[t] = AfterLookahead(file, S[t] + 1)
          /\ (ByteAt(file, S[t] + 1) = QUOTE /\ ByteAt(file, S[t] + 2) \in {LF, CR, EOF}) =>
                handoff[t] = AfterLookahead(file, S[t] + 2)
          /\ handoff[t] = Len(file) \/ RowStartAt(file, handoff[t])

\* End of the nominal range of worker t: the next split point, the file
\* size for the last worker.
NominalEnd(t) == IF t = NUM_THREADS - 1 THEN Len(file) ELSE S[t + 1]

\* C33: S[0] = firstData; range t is base + 1 bytes long for
\* t < dataBytes % N and base bytes otherwise (base = dataBytes / N), so the
\* N ranges partition [firstData, fileSize) and every S[t] lies in
\* [firstData, fileSize], also when dataBytes < N.
C33_NominalSplitPartitions ==
  (pc \in {"resync", "parse", "done", "terminated"}) =>
     LET dataBytes == Len(file) - firstData
         base == dataBytes \div NUM_THREADS
     IN /\ S[0] = firstData
        /\ \A t \in Threads :
              /\ NominalEnd(t) - S[t] =
                    (IF t < dataBytes % NUM_THREADS THEN base + 1 ELSE base)
              /\ firstData <= S[t] /\ S[t] <= Len(file)
        /\ \A p \in firstData..(Len(file) - 1) :
              Cardinality({t \in Threads : S[t] <= p /\ p < NominalEnd(t)}) = 1

\* Three workers over two data bytes: base = 0, the first two ranges hold
\* one byte each and the last one is empty.
C33_Witness ==
  /\ pc = "parse"
  /\ NUM_THREADS = 3
  /\ Len(file) - firstData = 2
  /\ S = (0 :> firstData @@ 1 :> firstData + 1 @@ 2 :> Len(file))

\* The offset after the first unquoted row terminator of the file (after
\* the LF of a CRLF), the file size when there is none.
AfterHeaderRow(f) == MinOf({p \in 1..Len(f) : AfterTerminatorAt(f, p)} \cup {Len(f)})

\* C34: find_first_data_offset returns the offset immediately after the
\* header row's first unquoted terminator (one byte past an LF or a lone CR,
\* two bytes past the CR of a CRLF), CR and LF inside quoted header fields
\* ignored, and fileSize when the file has no unquoted terminator.
C34_FirstDataAfterHeaderRow ==
  (pc \notin {"start", "header"} /\ Len(file) > 0) => firstData = AfterHeaderRow(file)

\* C35: every factorizer worker runs to completion, so mapIntTranspose
\* terminates: between its first statement and its return some thread can
\* always take a step (every run is finite, so a run that cannot get stuck
\* reaches the return); also when the last data row ends at EOF without a
\* newline and when a field does not fit in one read buffer.
C35_MapIntTransposeTerminates ==
  (fpc.at \in {"loop", "map", "merged"}) => Runnable

\* C36: a field longer than the read buffer is never split or dropped by
\* the factorizer: every token a worker has put in a dictionary of a slab
\* column is the whole text of a field of that column in some row.
C36_NoFragmentInDictionary ==
  (fpc.at \in {"map", "merged"} /\ IndexComplete) =>
     \A t \in DOMAIN chunk.localMaps : \A k \in DOMAIN chunk.localMaps[t] :
        \A token \in DOMAIN chunk.localMaps[t][k] :
           \E r \in 1..chunk.rowCount :
              /\ RowHasField(file, chunk.rowOffsets[r], chunk.start + k - 1)
              /\ token = CellText(k, r)

\* The local ids a dictionary holds.
LocalIds(local) == {local[key] : key \in DOMAIN local}

\* The distinct tokens the workers have met in slab column k.
TokensOfColumn(k) == UNION {DOMAIN chunk.localMaps[t][k] : t \in DOMAIN chunk.localMaps}

\* C37: before the relabel the local ids of every (thread, column)
\* dictionary are exactly 0..size-1; after the relabel the codes present
\* in a column are exactly 0..k-1, k the number of distinct tokens of the
\* column, no cell holds the sentinel -1, and the lookup table maps every
\* local id to the global id of the same token.
C37_CodesDense ==
  /\ (fpc.at \in {"map", "merged"}) =>
        \A t \in DOMAIN chunk.localMaps : \A k \in DOMAIN chunk.localMaps[t] :
           LocalIds(chunk.localMaps[t][k]) =
             0..(Cardinality(DOMAIN chunk.localMaps[t][k]) - 1)
  /\ (fpc.at = "merged") =>
        /\ \A k \in DOMAIN chunk.data :
              /\ Range(chunk.data[k]) = 0..(Cardinality(TokensOfColumn(k)) - 1)
              /\ (0 - 1) \notin Range(chunk.data[k])
        /\ \A t \in DOMAIN chunk.localMaps : \A k \in DOMAIN chunk.localMaps[t] :
              \A key \in DOMAIN chunk.localMaps[t][k] :
                 RemapLut(chunk.localMaps[t][k], globalDict[k])[chunk.localMaps[t][k][key]]
                   = globalDict[k][key]

\* Rows c, a, b, c split between two workers: the local ids of c differ
\* (0 and 1) and the relabel gives the codes of a, b, c as 0, 2, 1.
C37_Witness ==
  /\ fpc.at = "merged"
  /\ NUM_THREADS = 2
  /\ file = ScenarioThreeStrings
  /\ chunk.localMaps[1][1] = (<<"c">> :> 0 @@ <<"a">> :> 1)
  /\ chunk.localMaps[2][1] = (<<"b">> :> 0 @@ <<"c">> :> 1)
  /\ chunk.data = << <<1, 0, 2, 1>> >>

\* mapIntTranspose is between its first statement and its return.
InMapIntTranspose(at) == at \in {"loop", "map", "merged"}

\* A step taken by mapIntTranspose or one of its workers.
C38_Step ==
  (fpc.at # "idle" \/ fpc'.at # "idle") =>
     /\ UNCHANGED <<file, headerBin, rowOffsetsBin, colCount, rowCount>>
     /\ UNCHANGED <<buildState, COLUMNS_PER_CHUNK>>
     /\ (InMapIntTranspose(fpc.at) /\ InMapIntTranspose(fpc'.at)) =>
           chunk'.rowOffsets = chunk.rowOffsets
     /\ InMapIntTranspose(fpc'.at) =>
           /\ Len(chunk'.rowOffsets) = rowCount
           /\ \A k \in 1..Min(rowCount, Len(rowOffsetsBin)) :
                 chunk'.rowOffsets[k] = rowOffsetsBin[k]

\* C38: mapIntTranspose changes only the per-row cursors, the slab's
\* matrices and dictionaries and column_chunk_meta.bin: the rowOffsets
\* array keeps the offsets read from row_offsets.bin for the whole run, and
\* the source file, the header index file, row_offsets.bin, colCount and
\* rowCount are unchanged.
C38_MapIntTransposeFrame == [][C38_Step]_vars

\* After the second slab of a two-column table: the cursors have moved to
\* the ends of the rows while rowOffsets still holds the row starts.
C38_Witness ==
  /\ fpc.at = "merged"
  /\ fpc.col = 1
  /\ rowOffsetsBin = <<4, 8>>
  /\ chunk.rowOffsets = <<4, 8>>
  /\ chunk.rowCursor = <<8, 12>>
  /\ Len(meta) = 2

\* =============== reference: the rows the sequential builder owes =========
\* The data rows that hold at least one byte before their terminator.
NonEmptyDataRows(f) == {r \in DataRowStarts(f) : ~TerminatorAt(f, r)}

\* C39: findNewLineOffsets writes the offset of the first byte of every
\* non-empty data row whose column count equals the header's (header
\* excluded, empty rows ignored), with LF, CRLF and lone-CR terminators and
\* with quoted fields; totalLines() is the number of offsets written; it
\* returns false, counting no further row, at the first data row whose
\* column count differs and when the header has not been parsed.
C39_SequentialBuilder ==
  (sequential.pc = "returned") =>
     LET n == sequential.num_columns_
         rows == NonEmptyDataRows(file)
         bad == {r \in rows : FieldCount(file, r) # n}
     IN /\ sequential.total_lines_ = Len(sequential.out)
        /\ n = 0 => ~sequential.ok
        /\ (n > 0 /\ bad = {}) =>
              sequential.ok /\ sequential.out = SortedSeq(rows)
        /\ (n > 0 /\ bad # {}) =>
              /\ ~sequential.ok
              /\ sequential.out = SortedSeq({r \in rows : r < MinOf(bad)})

====
